---- MODULE Spec2Model ----
(***************************************************************************)
(* Extraction engine of slydb (src/src/slydb/model.py): KeynoteFile opens  *)
(* a container, decodes its Metadata and Document chunks, walks the slide  *)
(* tree through the archive registry (Archive._store), decodes each        *)
(* slide's backing entry and assembles the document record.                *)
(*                                                                         *)
(* Strings that the code processes character by character (text lines,     *)
(* digests) are sequences of one-character strings; "NL" stands for        *)
(* "\n", "OBJ" for "￼" and "SP" for " ".  Names, locators and         *)
(* identifiers' text are TLA+ strings, concatenated with \o.               *)
(***************************************************************************)
EXTENDS Integers, Sequences, FiniteSets, TLC

VARIABLES
    container,  \* run -> the container (zip file) the run extracts
    pc,         \* run -> position of the run inside KeynoteFile.record()
    store,      \* Archive._store: identifier -> Archive (one per process)
    metadata,   \* run -> KeynoteFile.metadata (decoded Metadata chunk)
    document,   \* run -> KeynoteFile.document (decoded Document chunk)
    tree,       \* run -> the list Document.slide_nodes() iterates
    treeIdx,    \* run -> how many entries of that list the generator consumed
    number,     \* run -> enumerate()'s counter i in KeynoteFile.slides
    node,       \* run -> the slide node the generator yielded last
    slides,     \* run -> the list KeynoteFile.slides is building
    log,        \* run -> logging.warn records of KeynoteFile.slides
    yielded,    \* run -> the nodes the generator yielded, with their tree index
    resolved,   \* run -> archives Ref.archive() returned to the run
    record,     \* run -> outcome of KeynoteFile.record()
    decoded,    \* run -> the convert() calls of the run: entry name, outcome
    previous,   \* run -> outcome of the run's earlier extraction, if any
    batch,      \* the call of index_path in progress, if any
    exported,   \* run -> the files export_thumbnails wrote, in order
    meili       \* the call of meili_main in progress, if any

vars == <<container, pc, store, metadata, document, tree, treeIdx, number,
          node, slides, log, yielded, resolved, record, decoded, previous, batch,
          exported, meili>>

\* Largest number of slide nodes in a document's slide tree.
MaxSlides == 2

\* The extraction runs (KeynoteFile instances) of one process.
Runs == {"A", "B"}

----------------------------------------------------------------------------
(* Python helpers                                                          *)

RECURSIVE Join(_, _)
\* sep.join(parts) on character sequences
Join(parts, sep) ==
    IF parts = <<>> THEN <<>>
    ELSE IF Len(parts) = 1 THEN parts[1]
    ELSE parts[1] \o sep \o Join(Tail(parts), sep)

RECURSIVE LStrip(_, _)
LStrip(s, chars) ==
    IF s # <<>> /\ s[1] \in chars THEN LStrip(Tail(s), chars) ELSE s

RECURSIVE RStrip(_, _)
RStrip(s, chars) ==
    IF s # <<>> /\ s[Len(s)] \in chars
    THEN RStrip(SubSeq(s, 1, Len(s) - 1), chars)
    ELSE s

\* str.strip(chars): both ends
Strip(s, chars) == RStrip(LStrip(s, chars), chars)

RECURSIVE Replace(_, _, _)
\* str.replace(old, new) for a one-character old
Replace(s, old, new) ==
    IF s = <<>> THEN <<>>
    ELSE (IF s[1] = old THEN new ELSE <<s[1]>>) \o Replace(Tail(s), old, new)

\* The characters Slide.text_blocks / presenter_notes strip: "\n￼ "
StripChars == {"NL", "OBJ", "SP"}

\* uuid.UUID(text): parsing accepts upper-case hex, str() gives lower case
UUIDParse(text) ==
    [hex |-> CASE text = "U1" -> "u1"
               [] text = "R2" -> "r2"
               [] OTHER -> text]

\* str(uuid.UUID)
UUIDStr(u) == u.hex

----------------------------------------------------------------------------
(* Containers: the input documents the runs are given                      *)

\* Identifiers used by the generated documents.  As in real documents the
\* same small identifiers occur in every document.
NodeId(k) == 10 + k
SlideId(k) == 20 + k
ThumbId(k) == 30 + k

\* A document is a plain document of MaxSlides slides with one deviation:
\*   short          one slide fewer
\*   rev2, uuid2, uuidUpper   another revision / document identifier text
\*   reversed       the tree lists the slides opposite to entry-name order
\*   shared         every thumbnail has the same stored digest
\*   remix          reversed and shared, with other slide text
\*   absent k       slide k's backing entry is not in the container
\*   corrupt k      slide k's backing entry does not decode
\*   nothumbref k   slide node k has an empty thumbnail list
\*   nothumbdata k  slide node k's thumbnail is not in the data table
\*   nocomponent k  slide k is not in the component table
\*   dangling k     the tree names node k, whose archive the chunk lacks
PosKinds == {"absent", "corrupt", "nothumbref", "nothumbdata", "nocomponent",
             "dangling"}
DocKinds == {"none", "rev2", "uuid2", "uuidUpper", "reversed", "shared",
             "remix"}

\* Deviations of the stored data files:
\*   nothumbfile k  the data table lists slide k's thumbnail, whose file the
\*                  container lacks
DataPosKinds == {"nothumbfile"}

\* Deviations of the payloads from the schema, and of the object graph:
\*   unknowntag k   slide k's chunk holds an object of a tag no class has
\*   missingopt k   a text storage of slide k omits its optional fields
\*   missingreq k   slide node k omits the required field isSkipped
\*   extra k        slide node k and slide k's text carry an undeclared field
\*   nonode k       the archive the tree names for k holds no slide node
\*   noslide k      slide node k has no slide reference
\*   twonodes k     the archive of node k holds a second slide node after it
\*   twonotes k     slide k's chunk holds two notes-kind text storages
\*   slidesecond k  slide k's chunk holds a text archive first and the
\*                  archive of the slide object after it
\*   unopenable     the path is not a zip file
\*   nodocobj       the Document chunk's first archive holds no document
\*   noshow         the archive the document's show names holds no show
\*   noshowarchive  the Document chunk lacks the archive of the show
\*   eqdigest       the stored digests have an "=" inside
\*   docsecond      the Document chunk holds the show's archive first and
\*                  the archive of the document object after it
SchemaPosKinds == {"unknowntag", "missingopt", "missingreq", "extra",
                   "nonode", "noslide", "twonodes", "twonotes",
                   "slidesecond"}
SchemaDocKinds == {"unopenable", "nodocobj", "noshow", "noshowarchive",
                   "eqdigest", "docsecond"}

Param(kd, k) ==
    [n |-> IF kd = "short" THEN MaxSlides - 1 ELSE MaxSlides,
     kind |-> kd, k |-> k]

Params ==
    {Param(kd, 0) : kd \in DocKinds \cup {"short"}}
    \cup {Param(kd, k) : kd \in PosKinds, k \in 1..MaxSlides}

\* The documents a second run extracts beside the first
OtherParams == {Param(kd, 0) : kd \in {"none", "short", "rev2", "remix"}}

Hit(p, kd, k) == p.kind = kd /\ p.k = k

\* The slide at tree position j
SlideAt(p, j) ==
    IF p.kind \in {"reversed", "remix"} THEN p.n + 1 - j ELSE j

\* Name of the entry backing slide k
LocatorOf(p, k) == "Slide-" \o ToString(k)

\* The payload of slide node k's object: field name -> value
SlideNodeOf(p, k) ==
    LET slide == [identifier |-> SlideId(k)]
        thumbnails == IF Hit(p, "nothumbref", k) THEN <<>>
                      ELSE <<[identifier |-> ThumbId(k)],
                             [identifier |-> ThumbId(k) + 10]>>
        isSkipped == (k = 2)
    IN IF Hit(p, "noslide", k)
       THEN [pbtype |-> "KN.SlideNodeArchive", thumbnails |-> thumbnails,
             isSkipped |-> isSkipped]
       ELSE IF Hit(p, "missingreq", k)
       THEN [pbtype |-> "KN.SlideNodeArchive", slide |-> slide,
             thumbnails |-> thumbnails]
       ELSE IF Hit(p, "extra", k)
       THEN [pbtype |-> "KN.SlideNodeArchive", slide |-> slide,
             thumbnails |-> thumbnails, isSkipped |-> isSkipped,
             futureField |-> "f"]
       ELSE [pbtype |-> "KN.SlideNodeArchive", slide |-> slide,
             thumbnails |-> thumbnails, isSkipped |-> isSkipped]

\* The objects of the archive the tree names for slide k
NodeObjectsOf(p, k) ==
    IF Hit(p, "nonode", k) THEN <<[pbtype |-> "KN.SlideArchive"]>>
    ELSE IF Hit(p, "twonodes", k)
    THEN <<[pbtype |-> "KN.SlideArchive"], SlideNodeOf(p, k),
           SlideNodeOf(p, (k % p.n) + 1)>>
    ELSE <<SlideNodeOf(p, k)>>

ArchiveOf(id, objs) == [header |-> [identifier |-> id], objects |-> objs]

\* Index/Document.iwa
DocumentChunkOf(p) ==
    LET doc == <<ArchiveOf(1, IF p.kind = "nodocobj"
                              THEN <<[pbtype |-> "KN.SlideArchive"]>>
                              ELSE <<[pbtype |-> "KN.DocumentArchive",
                                      show |-> [identifier |-> 2]]>>)>>
        show == IF p.kind = "noshowarchive" THEN <<>>
                ELSE IF p.kind = "noshow"
                THEN <<ArchiveOf(2, <<[pbtype |-> "KN.SlideArchive"]>>)>>
                ELSE <<ArchiveOf(2, <<[pbtype |-> "KN.ShowArchive",
                         slideTree |->
                           [slides |-> [j \in 1..p.n |->
                                  [identifier |-> NodeId(SlideAt(p, j))]]]]>>)>>
    IN
    (IF p.kind = "docsecond" THEN show \o doc ELSE doc \o show)
    \o SelectSeq([k \in 1..p.n |-> ArchiveOf(NodeId(k), NodeObjectsOf(p, k))],
                 LAMBDA a : ~Hit(p, "dangling", a.header.identifier - 10))

DigestOf(p, k) ==
    IF p.kind = "eqdigest" THEN <<"=", "/", ToString(k), "=", "+", "=", "=">>
    ELSE <<"x", "/", "+",
           IF p.kind \in {"shared", "remix"} THEN "0" ELSE ToString(k), "=">>

FileNameOf(k) == "st-" \o ToString(k) \o ".jpg"

\* Index/Metadata.iwa
MetadataChunkOf(p) ==
    <<ArchiveOf(3, <<
        [pbtype |-> "TSP.PackageMetadata",
         components |->
            SelectSeq([k \in 1..p.n |->
                          [identifier |-> SlideId(k),
                           locator |-> IF k = 1 THEN <<>>
                                       ELSE <<LocatorOf(p, k)>>,
                           preferredLocator |-> IF k = 1 THEN LocatorOf(p, k)
                                                ELSE "Slide"]],
                      LAMBDA c : ~Hit(p, "nocomponent", c.identifier - 20)),
         datas |->
            SelectSeq([k \in 1..p.n |->
                          [identifier |-> ThumbId(k),
                           digest |-> DigestOf(p, k),
                           fileName |-> FileNameOf(k)]],
                      LAMBDA d : ~Hit(p, "nothumbdata", d.identifier - 30)),
         revision |-> [identifier |-> IF p.kind = "rev2" THEN "R2" ELSE "r1"],
         fileFormatVersion |-> <<12, 2, 0>>]>>)>>

\* The chunk of the entry backing the slide at tree position k
SlideChunkOf(p, k) ==
    LET body == [pbtype |-> "TSWP.StorageArchive", kind |-> "BODY",
                 text |-> <<<<(IF p.kind = "remix" THEN "T" ELSE "t")
                                 \o ToString(k)>>,
                            <<"b" \o ToString(k), "OBJ">>>>]
        ordered(own, first, second) ==
            IF Hit(p, "slidesecond", k) THEN <<first, own, second>>
            ELSE <<own, first, second>>
    IN
    ordered(
      ArchiveOf(SlideId(k), <<[pbtype |-> "KN.SlideArchive"]>>),
      ArchiveOf(100 + 10 * k + 1,
                <<IF Hit(p, "extra", k)
                  THEN [pbtype |-> body.pbtype, kind |-> body.kind,
                        text |-> body.text, futureField |-> "f"]
                  ELSE body>>
                \o (IF Hit(p, "unknowntag", k)
                    THEN <<[pbtype |-> "KN.FutureArchive", payload |-> "raw"]>>
                    ELSE IF Hit(p, "twonotes", k)
                    THEN <<[pbtype |-> "TSWP.StorageArchive", kind |-> "NOTE",
                            text |-> <<<<"m" \o ToString(k)>>>>]>>
                    ELSE <<>>)),
      ArchiveOf(100 + 10 * k + 2,
                <<[pbtype |-> "TSWP.StorageArchive", kind |-> "NOTE",
                   text |-> <<<<"n" \o ToString(k), "NL">>>>],
                  IF Hit(p, "missingopt", k)
                  THEN [pbtype |-> "TSWP.StorageArchive"]
                  ELSE [pbtype |-> "TSWP.StorageArchive", kind |-> "TEXTBOX",
                        text |-> <<<<"OBJ">>>>]>>))

SlideEntryName(p, k) == "Index/" \o LocatorOf(p, k) \o ".iwa"

\* The .iwa entries: name -> [ok: the bytes decode, archives: what they hold]
IwaEntriesOf(p) ==
    LET present == {k \in 1..p.n : ~Hit(p, "absent", k)}
        names == {SlideEntryName(p, k) : k \in present}
                    \cup {"Index/Document.iwa", "Index/Metadata.iwa"}
        posOf(nm) == CHOOSE k \in present : SlideEntryName(p, k) = nm
    IN [nm \in names |->
            IF nm = "Index/Document.iwa"
            THEN [ok |-> TRUE, archives |-> DocumentChunkOf(p)]
            ELSE IF nm = "Index/Metadata.iwa"
            THEN [ok |-> TRUE, archives |-> MetadataChunkOf(p)]
            ELSE [ok |-> ~Hit(p, "corrupt", posOf(nm)),
                  archives |-> SlideChunkOf(p, posOf(nm))]]

ContainerOf(p, path) ==
    [path |-> path,
     isZip |-> p.kind # "unopenable",
     documentIdentifier |-> CASE p.kind = "uuid2" -> "u2"
                              [] p.kind = "uuidUpper" -> "U1"
                              [] OTHER -> "u1",
     iwa |-> IwaEntriesOf(p),
     data |-> [nm \in {"Data/" \o FileNameOf(k) :
                          k \in {j \in 1..p.n : ~Hit(p, "nothumbfile", j)}} |->
                  "jpeg:" \o nm]]

PathA == <<"Users", "t", "Dropbox (HMS)", "talks", "a.key">>
PathB == <<"Users", "t", "Desktop", "b.key">>

\* The containers of a process: run A's is any document; run B extracts
\* either the same file again or another file.
Containers ==
    {[r \in Runs |-> ContainerOf(p, PathA)] : p \in Params}
    \cup {[r \in Runs |-> IF r = "A" THEN ContainerOf(pa, PathA)
                          ELSE ContainerOf(pb, PathB)]
            : pa \in Params, pb \in OtherParams}

----------------------------------------------------------------------------
(* Results of calls: a value, None, or a raised exception                  *)

Ok(v) == [exc |-> "none", val |-> <<v>>]
ReturnsNone == [exc |-> "none", val |-> <<>>]
Raise(e) == [exc |-> e, val |-> <<>>]
Raised(res) == res.exc # "none"
Val(res) == res.val[1]

----------------------------------------------------------------------------
(* Searching archives and chunks for an object of a type                  *)

\* The last object of the type instead of the first
LastOfType(objects, type) ==
    LET hits == {j \in 1..Len(objects) : objects[j].pbtype = type}
    IN IF hits = {} THEN Raise("StopIteration")
       ELSE Ok(objects[CHOOSE j \in hits : \A i \in hits : i <= j])

RECURSIVE FirstOfType(_, _)
\* next(obj for obj in objects if isinstance(obj, type_))
FirstOfType(objects, type) ==
    IF objects = <<>> THEN Raise("StopIteration")
    ELSE IF objects[1].pbtype = type THEN Ok(objects[1])
    ELSE FirstOfType(Tail(objects), type)

Archive_next_object_of_type(archive, type) ==
    FirstOfType(archive.objects, type)

\* Chunk.next_object_of_type: the loop returns in its first iteration
Chunk_next_object_of_type(chunk, type) ==
    IF chunk.archives = <<>> THEN ReturnsNone
    ELSE FirstOfType(chunk.archives[1].objects, type)

----------------------------------------------------------------------------
(* Decoding: IWAFile.from_buffer(...).chunks[0].to_dict() and convert()    *)

RECURSIVE DictByIdentifier(_)
\* for x in items: map[x.identifier] = x
DictByIdentifier(items) ==
    IF items = <<>> THEN <<>>
    ELSE LET rest == DictByIdentifier(SubSeq(items, 1, Len(items) - 1))
             last == items[Len(items)]
         IN (last.identifier :> last) @@ rest

\* The maps kept on the class: every decoded instance adds to one dict
SharedMap(own, field) ==
    LET pmOf(r) == Chunk_next_object_of_type(metadata[r],
                                             "TSP.PackageMetadata")
        others == {r \in Runs : metadata[r].archives # <<>>
                                /\ ~Raised(pmOf(r))}
        mapOf(r) == Val(pmOf(r))[field]
        ids == UNION {DOMAIN mapOf(r) : r \in others} \ DOMAIN own
    IN own @@ [id \in ids |->
                 mapOf(CHOOSE r \in others : id \in DOMAIN mapOf(r))[id]]

TSP_PackageMetadata_shared_maps(obj) ==
    [pbtype |-> obj.pbtype,
     components |-> obj.components,
     datas |-> obj.datas,
     revision |-> [identifier |-> UUIDParse(obj.revision.identifier)],
     fileFormatVersion |-> obj.fileFormatVersion,
     component_map |-> SharedMap(DictByIdentifier(obj.components),
                                 "component_map"),
     data_map |-> SharedMap(DictByIdentifier(obj.datas), "data_map")]

\* The metadata maps are per-instance struct fields: each decoded
\* TSP_PackageMetadata starts from an empty dict and fills it from its own
\* components and datas.
TSP_PackageMetadata_post_init(obj) ==
    [pbtype |-> obj.pbtype,
     components |-> obj.components,
     datas |-> obj.datas,
     revision |-> [identifier |-> UUIDParse(obj.revision.identifier)],
     fileFormatVersion |-> obj.fileFormatVersion,
     component_map |-> DictByIdentifier(obj.components),
     data_map |-> DictByIdentifier(obj.datas)]

\* ArchiveObject: the tags of the classes of the union, among them the
\* classes whose fields extraction reads
Registry ==
    {"KN.DocumentArchive", "KN.ShowArchive", "KN.SlideNodeArchive",
     "KN.SlideArchive", "TSWP.StorageArchive", "TSP.PackageMetadata"}

\* The fields a class declares (those the extraction reads): the required
\* ones, the ones with a default, and those of type `X | None`, which the
\* model holds as a sequence of at most one element
Schema(tag) ==
    CASE tag = "KN.DocumentArchive" ->
            [required |-> {"show"}, defaults |-> <<>>, optional |-> {}]
      [] tag = "KN.ShowArchive" ->
            [required |-> {"slideTree"}, defaults |-> <<>>, optional |-> {}]
      [] tag = "KN.SlideNodeArchive" ->
            [required |-> {"isSkipped"},
             defaults |-> [slide |-> <<>>, thumbnails |-> <<>>],
             optional |-> {"slide"}]
      [] tag = "TSWP.StorageArchive" ->
            [required |-> {},
             defaults |-> [kind |-> "TEXTBOX", text |-> <<>>],
             optional |-> {}]
      [] tag = "TSP.PackageMetadata" ->
            [required |-> {"components", "datas", "revision",
                           "fileFormatVersion"},
             defaults |-> <<>>, optional |-> {}]
      [] OTHER -> [required |-> {}, defaults |-> <<>>, optional |-> {}]

\* A declared field of the struct built from a payload: from the payload,
\* or else the default
FieldOf(obj, f) ==
    IF f \in DOMAIN obj
    THEN (IF f \in Schema(obj.pbtype).optional THEN <<obj[f]>> ELSE obj[f])
    ELSE Schema(obj.pbtype).defaults[f]

\* The struct built from a payload that fits the schema: the declared
\* fields and nothing else
StructOf(obj) ==
    CASE obj.pbtype = "KN.DocumentArchive" ->
            [pbtype |-> obj.pbtype, show |-> FieldOf(obj, "show")]
      [] obj.pbtype = "KN.ShowArchive" ->
            [pbtype |-> obj.pbtype, slideTree |-> FieldOf(obj, "slideTree")]
      [] obj.pbtype = "KN.SlideNodeArchive" ->
            [pbtype |-> obj.pbtype,
             isSkipped |-> FieldOf(obj, "isSkipped"),
             slide |-> FieldOf(obj, "slide"),
             thumbnails |-> FieldOf(obj, "thumbnails")]
      [] obj.pbtype = "TSWP.StorageArchive" ->
            [pbtype |-> obj.pbtype,
             kind |-> FieldOf(obj, "kind"),
             text |-> FieldOf(obj, "text")]
      [] obj.pbtype = "TSP.PackageMetadata" ->
            [pbtype |-> obj.pbtype,
             components |-> FieldOf(obj, "components"),
             datas |-> FieldOf(obj, "datas"),
             revision |-> FieldOf(obj, "revision"),
             fileFormatVersion |-> FieldOf(obj, "fileFormatVersion")]
      [] OTHER -> [pbtype |-> obj.pbtype]

\* A class declared with forbid_unknown_fields=True
ConvertObjectForbidUnknown(obj) ==
    LET sch == Schema(obj.pbtype)
    IN IF obj.pbtype \notin Registry THEN Raise("ValidationError")
       ELSE IF ~(sch.required \subseteq DOMAIN obj)
       THEN Raise("ValidationError")
       ELSE IF ~(DOMAIN obj \subseteq
                   {"pbtype"} \cup sch.required \cup DOMAIN sch.defaults)
       THEN Raise("ValidationError")
       ELSE IF obj.pbtype = "TSP.PackageMetadata"
       THEN Ok(TSP_PackageMetadata_post_init(StructOf(obj)))
       ELSE Ok(StructOf(obj))

\* convert() of one object of an archive, a member of the tagged union
\* ArchiveObject: a tag outside the union and a missing required field
\* raise msgspec.ValidationError; undeclared fields are dropped
ConvertObject(obj) ==
    LET sch == Schema(obj.pbtype)
    IN IF obj.pbtype \notin Registry THEN Raise("ValidationError")
       ELSE IF ~(sch.required \subseteq DOMAIN obj)
       THEN Raise("ValidationError")
       ELSE IF obj.pbtype = "TSP.PackageMetadata"
       THEN Ok(TSP_PackageMetadata_post_init(StructOf(obj)))
       ELSE Ok(StructOf(obj))

RECURSIVE ConvertObjects(_)
\* objects: list[ArchiveObject]; the first object that fails ends it
ConvertObjects(objs) ==
    IF objs = <<>> THEN Ok(<<>>)
    ELSE LET head == ConvertObject(objs[1])
         IN IF Raised(head) THEN head
            ELSE LET rest == ConvertObjects(Tail(objs))
                 IN IF Raised(rest) THEN rest
                    ELSE Ok(<<Val(head)>> \o Val(rest))

\* convert() of one archive, as an Archive object of run r (owner tells
\* the Archive objects of different decodes apart)
ConvertArchive(r, a) ==
    LET objs == ConvertObjects(a.objects)
    IN IF Raised(objs) THEN objs
       ELSE Ok([header |-> a.header, objects |-> Val(objs), owner |-> r])

RECURSIVE ConvertArchivesFrom(_, _, _), ConvertNext(_, _, _, _)
\* archives: list[Archive], built front to back.  Each Archive is
\* constructed, and its __post_init__ run, before the next one is looked
\* at: `done` are the archives constructed so far, and `registered` those
\* constructed when the conversion ended, also when it ended in an
\* exception.
ConvertArchivesFrom(r, archives, done) ==
    IF Len(done) = Len(archives)
    THEN [exc |-> "none", val |-> <<[archives |-> done]>>, registered |-> done]
    ELSE ConvertNext(r, archives, done,
                     ConvertArchive(r, archives[Len(done) + 1]))

\* The outcome `a` of the next archive: its exception ends the conversion
ConvertNext(r, archives, done, a) ==
    IF Raised(a) THEN [exc |-> a.exc, val |-> <<>>, registered |-> done]
    ELSE ConvertArchivesFrom(r, archives, Append(done, Val(a)))

ConvertArchives(r, archives) == ConvertArchivesFrom(r, archives, <<>>)

\* convert(data, Chunk, strict=False) for the data of an entry
ConvertChunk(r, entry) == ConvertArchives(r, entry.archives)

\* Archive.__post_init__: Archive._store[self.header.identifier] = self
Archive_post_init(st, archive) ==
    (archive.header.identifier :> archive) @@ st

\* Only the first archive of a chunk is registered
RegisterFirst(st, archives) ==
    IF archives = <<>> THEN st ELSE Archive_post_init(st, archives[1])

RECURSIVE RegisterAll(_, _)
\* the archives of a chunk are constructed, hence registered, in order
RegisterAll(st, archives) ==
    IF archives = <<>> THEN st
    ELSE RegisterAll(Archive_post_init(st, archives[1]), Tail(archives))

\* KeynoteFile._iwa_to_dict: zip.read raises KeyError for a missing entry,
\* IWAFile.from_buffer raises for bytes that do not decode
iwa_to_dict(c, path) ==
    IF path \notin DOMAIN c.iwa THEN Raise("KeyError")
    ELSE IF ~c.iwa[path].ok THEN Raise("ValueError")
    ELSE Ok(c.iwa[path])

----------------------------------------------------------------------------
(* Lookups                                                                 *)

\* Archive._store.get(self.identifier): None for an unknown identifier
Ref_archive_get(st, ref) ==
    IF ref.identifier \in DOMAIN st THEN Ok(st[ref.identifier])
    ELSE ReturnsNone

\* Ref.archive(): Archive._store[self.identifier]
Ref_archive(st, ref) ==
    IF ref.identifier \in DOMAIN st THEN Ok(st[ref.identifier])
    ELSE Raise("KeyError")

get_component(pm, identifier) ==
    IF identifier \in DOMAIN pm.component_map
    THEN Ok(pm.component_map[identifier])
    ELSE Raise("KeyError")

get_data_item(pm, identifier) ==
    IF identifier \in DOMAIN pm.data_map
    THEN Ok(pm.data_map[identifier])
    ELSE Raise("KeyError")

\* Metadata.package_metadata
package_metadata(meta) ==
    Chunk_next_object_of_type(meta, "TSP.PackageMetadata")

\* Document.show(): document_archive, then KN_DocumentArchive.get_show()
Document_show(st, doc) ==
    LET da == Chunk_next_object_of_type(doc, "KN.DocumentArchive")
    IN IF Raised(da) THEN da
       ELSE IF da.val = <<>> THEN Raise("AttributeError")
       ELSE LET arch == Ref_archive(st, Val(da).show)
            IN IF Raised(arch) THEN arch
               ELSE Archive_next_object_of_type(Val(arch), "KN.ShowArchive")

----------------------------------------------------------------------------
(* Identifier and digest derivation                                        *)

\* sha256, [:16] and urlsafe_b64encode(...).rstrip(b"=") are taken as
\* collision-free: each is a constructor over its argument.
Sha256(text) == <<"sha256", text>>
First16(bytes) == <<"first16", bytes>>
UrlsafeB64NoPad(bytes) == <<"urlsafe_b64", bytes>>

\* KeynoteFile.document_identifier
KeynoteFile_document_identifier(r) ==
    UUIDParse(container[r].documentIdentifier)

\* KeynoteFile.revision (read once the metadata chunk is decoded)
KeynoteFile_revision(r) ==
    Val(package_metadata(metadata[r])).revision.identifier

\* KeynoteFile.file_format_version, as str(Ver)
KeynoteFile_file_format_version(r) ==
    LET v == Val(package_metadata(metadata[r])).fileFormatVersion
    IN ToString(v[1]) \o "." \o ToString(v[2]) \o "." \o ToString(v[3])

SlideUuidOfPath(r, slide_id) ==
    UrlsafeB64NoPad(First16(Sha256(
        <<container[r].path,
          UUIDStr(KeynoteFile_document_identifier(r))
              \o UUIDStr(KeynoteFile_revision(r))
              \o ToString(slide_id)>>)))

SlideUuidDroppingRevision(r, slide_id) ==
    UrlsafeB64NoPad(First16(Sha256(
        UUIDStr(KeynoteFile_document_identifier(r)) \o ToString(slide_id))))

global_slide_uuid(r, slide_id) ==
    LET combo == UUIDStr(KeynoteFile_document_identifier(r))
                    \o UUIDStr(KeynoteFile_revision(r))
                    \o ToString(slide_id)
    IN UrlsafeB64NoPad(First16(Sha256(combo)))

\* data.replace("/", "_").replace("+", "-").rstrip("="): only the "=" at
\* the end go
SafeHashTrailing(data) ==
    RStrip(Replace(Replace(data, "/", <<"_">>), "+", <<"-">>), {"="})

safe_hash(data) ==
    Replace(Replace(Replace(data, "/", <<"_">>), "+", <<"-">>), "=", <<>>)

----------------------------------------------------------------------------
(* Slide                                                                   *)

RECURSIVE AllObjects(_)
\* for archive in self.archives: for obj in archive.objects
AllObjects(archives) ==
    IF archives = <<>> THEN <<>>
    ELSE archives[1].objects \o AllObjects(Tail(archives))

\* "\n".join(obj.text).strip("\n￼ ")
StorageText(obj) == Strip(Join(obj.text, <<"NL">>), StripChars)

\* Slide.identifier
Slide_identifier(s) == s.archives[1].header.identifier

\* Slide._thumbnail_data
Slide_thumbnail_data(s) ==
    IF s.node_archive.thumbnails = <<>> THEN Raise("IndexError")
    ELSE get_data_item(Val(package_metadata(metadata[s.keynote])),
                       s.node_archive.thumbnails[1].identifier)

\* The digest recomputed from the thumbnail's bytes
Slide_thumbnail_digest_of_bytes(s) ==
    LET d == Slide_thumbnail_data(s)
    IN IF Raised(d) THEN d
       ELSE Ok(<<"sha1:" \o container[s.keynote].data["Data/" \o Val(d).fileName]>>)

\* Slide.thumbnail_digest
Slide_thumbnail_digest(s) ==
    LET d == Slide_thumbnail_data(s)
    IN IF Raised(d) THEN d ELSE Ok(Val(d).digest)

\* Slide.safe_thumb_hash
Slide_safe_thumb_hash(s) ==
    LET d == Slide_thumbnail_digest(s)
    IN IF Raised(d) THEN d ELSE Ok(safe_hash(Val(d)))

\* Slide.thumbnail_bytes: zip.read raises KeyError for a missing file
Slide_thumbnail_bytes(s) ==
    LET d == Slide_thumbnail_data(s)
    IN IF Raised(d) THEN d
       ELSE IF ("Data/" \o Val(d).fileName) \in DOMAIN container[s.keynote].data
       THEN Ok(container[s.keynote].data["Data/" \o Val(d).fileName])
       ELSE Raise("KeyError")

RECURSIVE TextBlocksOf(_)
TextBlocksOf(objs) ==
    IF objs = <<>> THEN <<>>
    ELSE (IF objs[1].pbtype = "TSWP.StorageArchive"
             /\ StorageText(objs[1]) # <<>>
          THEN <<StorageText(objs[1])>> ELSE <<>>)
         \o TextBlocksOf(Tail(objs))

\* Slide.text_blocks
Slide_text_blocks(s) == TextBlocksOf(AllObjects(s.archives))

RECURSIVE FirstNoteOf(_)
FirstNoteOf(objs) ==
    IF objs = <<>> THEN <<>>
    ELSE IF objs[1].pbtype = "TSWP.StorageArchive" /\ objs[1].kind = "NOTE"
    THEN StorageText(objs[1])
    ELSE FirstNoteOf(Tail(objs))

\* Slide.presenter_notes
Slide_presenter_notes(s) == FirstNoteOf(AllObjects(s.archives))

\* Slide.record
Slide_record(s) ==
    LET thumb == Slide_safe_thumb_hash(s)
    IN IF Raised(thumb) THEN thumb
       ELSE Ok([slide_number |-> s.number,
                text_blocks |-> Join(Slide_text_blocks(s), <<"NL">>),
                presenter_notes |-> Slide_presenter_notes(s),
                thumb_digest |-> Val(thumb),
                is_skipped |-> s.node_archive.isSkipped,
                id |-> global_slide_uuid(s.keynote, Slide_identifier(s)),
                slide_ident |-> Slide_identifier(s)])

----------------------------------------------------------------------------
(* KeynoteFile.record                                                      *)

RECURSIVE AfterLast(_, _)
\* str(path).split(marker)[-1], on path components
AfterLast(path, marker) ==
    IF \E j \in 1..Len(path) : path[j] = marker
    THEN AfterLast(Tail(path), marker)
    ELSE path

RECURSIVE SlideRecords(_)
\* [slide.record() for slide in self.slides]: the first exception ends it
SlideRecords(ss) ==
    IF ss = <<>> THEN Ok(<<>>)
    ELSE LET first == Slide_record(ss[1])
         IN IF Raised(first) THEN first
            ELSE LET rest == SlideRecords(Tail(ss))
                 IN IF Raised(rest) THEN rest
                    ELSE Ok(<<Val(first)>> \o Val(rest))

NoRecord == [status |-> "pending", exc |-> "none", path |-> <<>>, id |-> "",
             revision |-> "", file_format_version |-> "", slides |-> <<>>]

ErrorRecord(e) == [NoRecord EXCEPT !.status = "error", !.exc = e]

KeynoteFile_record(r) ==
    LET recs == SlideRecords(slides[r])
    IN IF Raised(recs) THEN ErrorRecord(recs.exc)
       ELSE [status |-> "ok",
             exc |-> "none",
             path |-> AfterLast(container[r].path, "Dropbox (HMS)"),
             id |-> UUIDStr(KeynoteFile_document_identifier(r)),
             revision |-> UUIDStr(KeynoteFile_revision(r)),
             file_format_version |-> KeynoteFile_file_format_version(r),
             slides |-> Val(recs)]

----------------------------------------------------------------------------
(* The runs.  Each run is one `with KeynoteFile(path) as kf: kf.record()`   *)
(* (index._index_file); runs of different documents may interleave.        *)

Fresh ==
    /\ pc = [r \in Runs |-> "init"]
    /\ store = <<>>
    /\ metadata = [r \in Runs |-> [archives |-> <<>>]]
    /\ document = [r \in Runs |-> [archives |-> <<>>]]
    /\ tree = [r \in Runs |-> <<>>]
    /\ treeIdx = [r \in Runs |-> 0]
    /\ number = [r \in Runs |-> 0]
    /\ node = [r \in Runs |-> <<>>]
    /\ slides = [r \in Runs |-> <<>>]
    /\ log = [r \in Runs |-> <<>>]
    /\ yielded = [r \in Runs |-> <<>>]
    /\ resolved = [r \in Runs |-> {}]
    /\ record = [r \in Runs |-> NoRecord]
    /\ decoded = [r \in Runs |-> <<>>]
    /\ previous = [r \in Runs |-> NoRecord]
    /\ exported = [r \in Runs |-> <<>>]

\* No call of index_path: the runs are started by other callers
NoBatch == [paths |-> <<>>, pos |-> 1, records |-> <<>>, raised |-> "none",
            write |-> FALSE, output |-> <<>>, returned |-> FALSE]

\* No call of meili_main
NoMeili == [pc |-> "none"]

Init == container \in Containers /\ Fresh /\ batch = NoBatch /\ meili = NoMeili

\* An exception leaves KeynoteFile.record(): the run ends without a record
Fail(r, e) ==
    /\ pc' = [pc EXCEPT ![r] = "failed"]
    /\ record' = [record EXCEPT ![r] = ErrorRecord(e)]

\* What Ref.archive() handed to run r for the reference asked, if any
Resolving(r, asked, res) ==
    resolved' = [resolved EXCEPT ![r] =
                    IF asked = <<>> \/ Raised(res) \/ res.val = <<>> THEN @
                    ELSE @ \cup {[ref |-> asked[1].identifier,
                                  identifier |-> Val(res).header.identifier,
                                  owner |-> Val(res).owner]}]

\* convert() returned or raised in run r: the exception, if any, and the
\* archives constructed
Decoding(r, name, res) ==
    decoded' = [decoded EXCEPT ![r] =
                   Append(@, [name |-> name, exc |-> res.exc,
                              registered |-> res.registered])]

\* KeynoteFile.__init__: ZipFile(path) raises for a path that is no zip
\* file, and the exception is raised again with the same type
Open(r) ==
    /\ pc[r] = "init"
    /\ IF container[r].isZip
       THEN /\ pc' = [pc EXCEPT ![r] = "open"]
            /\ UNCHANGED record
       ELSE Fail(r, "BadZipFile")
    /\ UNCHANGED <<container, store, metadata, document, tree, treeIdx,
                   number, node, slides, log, yielded, resolved, decoded,
                   previous, batch, exported, meili>>

\* record(): "id" and "revision"; the first use of KeynoteFile.metadata
\* decodes Index/Metadata.iwa
DecodeMetadata(r) ==
    /\ pc[r] = "open"
    /\ LET data == iwa_to_dict(container[r], "Index/Metadata.iwa")
       IN IF Raised(data)
          THEN /\ Fail(r, data.exc)
               /\ UNCHANGED <<store, metadata, decoded>>
          ELSE \E chunk \in {ConvertChunk(r, Val(data))} :
               /\ store' = RegisterAll(store, chunk.registered)
               /\ Decoding(r, "Index/Metadata.iwa", chunk)
               /\ IF Raised(chunk)
                  THEN /\ Fail(r, chunk.exc)
                       /\ UNCHANGED metadata
                  ELSE LET pm == package_metadata(Val(chunk))
                       IN /\ metadata' = [metadata EXCEPT ![r] = Val(chunk)]
                          /\ IF Raised(pm) THEN Fail(r, pm.exc)
                             ELSE IF pm.val = <<>>
                             THEN Fail(r, "AttributeError")
                             ELSE /\ pc' = [pc EXCEPT ![r] = "meta"]
                                  /\ UNCHANGED record
    /\ UNCHANGED <<container, document, tree, treeIdx, number, node, slides,
                   log, yielded, resolved, previous, batch, exported, meili>>

\* KeynoteFile.slides: the first use of KeynoteFile.document decodes
\* Index/Document.iwa
DecodeDocument(r) ==
    /\ pc[r] = "meta"
    /\ LET data == iwa_to_dict(container[r], "Index/Document.iwa")
       IN IF Raised(data)
          THEN /\ Fail(r, data.exc)
               /\ UNCHANGED <<store, document, decoded>>
          ELSE \E chunk \in {ConvertChunk(r, Val(data))} :
               /\ store' = RegisterAll(store, chunk.registered)
               /\ Decoding(r, "Index/Document.iwa", chunk)
               /\ IF Raised(chunk)
                  THEN /\ Fail(r, chunk.exc)
                       /\ UNCHANGED document
                  ELSE /\ document' = [document EXCEPT ![r] = Val(chunk)]
                       /\ pc' = [pc EXCEPT ![r] = "doc"]
                       /\ UNCHANGED record
    /\ UNCHANGED <<container, metadata, tree, treeIdx, number, node, slides,
                   log, yielded, resolved, previous, batch, exported, meili>>

\* Document.slide_nodes(), up to the loop: self.show().slideTree.slides.
\* A StopIteration raised inside the generator leaves it as RuntimeError.
StartNodes(r) ==
    /\ pc[r] = "doc"
    /\ LET da == Chunk_next_object_of_type(document[r], "KN.DocumentArchive")
           asked == IF Raised(da) \/ da.val = <<>> THEN <<>>
                    ELSE <<Val(da).show>>
           arch == IF asked = <<>> THEN Raise("AttributeError")
                   ELSE Ref_archive(store, asked[1])
           sh == Document_show(store, document[r])
       IN /\ Resolving(r, asked, arch)
          /\ IF Raised(sh)
             THEN /\ Fail(r, IF sh.exc = "StopIteration" THEN "RuntimeError"
                             ELSE sh.exc)
                  /\ UNCHANGED <<tree, treeIdx>>
             ELSE /\ tree' = [tree EXCEPT ![r] = Val(sh).slideTree.slides]
                  /\ treeIdx' = [treeIdx EXCEPT ![r] = 0]
                  /\ pc' = [pc EXCEPT ![r] = "nodes"]
                  /\ UNCHANGED record
    /\ UNCHANGED <<container, store, metadata, document, number, node,
                   slides, log, yielded, decoded, previous, batch, exported, meili>>

\* Document.slide_nodes(), one iteration: resolve the next tree entry and
\* yield its slide node; suppress(StopIteration) skips an archive that
\* holds none
NextNode(r) ==
    /\ pc[r] = "nodes"
    /\ treeIdx[r] < Len(tree[r])
    /\ LET ref == tree[r][treeIdx[r] + 1]
           arch == Ref_archive(store, ref)
           nd == Archive_next_object_of_type(Val(arch), "KN.SlideNodeArchive")
       IN /\ Resolving(r, <<ref>>, arch)
          /\ IF Raised(arch)
             THEN /\ Fail(r, arch.exc)
                  /\ UNCHANGED <<treeIdx, node, yielded>>
             ELSE /\ treeIdx' = [treeIdx EXCEPT ![r] = @ + 1]
                  /\ UNCHANGED record
                  /\ IF Raised(nd)
                     THEN UNCHANGED <<pc, node, yielded>>
                     ELSE /\ node' = [node EXCEPT ![r] = <<Val(nd)>>]
                          /\ yielded' = [yielded EXCEPT ![r] =
                                Append(@, [pos |-> treeIdx[r] + 1,
                                           node |-> Val(nd)])]
                          /\ pc' = [pc EXCEPT ![r] = "slide"]
    /\ UNCHANGED <<container, store, metadata, document, tree, number,
                   slides, log, decoded, previous, batch, exported, meili>>

\* convert(data, Slide) after data.update(number=i, _keynote=self,
\* _node_archive=node, ...)
MakeSlide(r, chunk, i, nd) ==
    [archives |-> chunk.archives, number |-> i, node_archive |-> nd,
     keynote |-> r]

\* The try block of KeynoteFile.slides up to convert(): the exception of
\* _iwa_to_dict, else the outcome of convert
TryBlock(r, data) ==
    IF Raised(data) THEN [exc |-> data.exc, val |-> <<>>, registered |-> <<>>]
    ELSE ConvertChunk(r, Val(data))

PrependSlide(ss, s) == <<s>> \o ss

\* slides.append(...)
AppendSlide(ss, s) == Append(ss, s)

\* except Exception as e: every exception of the try block is caught
ExceptKeyErrorOnly(exc) == exc = "KeyError"

ExceptException(exc) == TRUE

\* f"Index/{comp.locator or comp.preferredLocator}.iwa"
SlidePath(comp) ==
    "Index/" \o (IF comp.locator # <<>> /\ comp.locator[1] # ""
                 THEN comp.locator[1] ELSE comp.preferredLocator) \o ".iwa"

\* KeynoteFile.slides, the body of the loop for the node just yielded.
\* Inside the try block _global_slide_uuid cannot raise here: record() has
\* read document_identifier and revision before it asks for the slides.
SlideBody(r) ==
    /\ pc[r] = "slide"
    /\ LET nd == node[r][1]
           i == number[r]
           comp == get_component(Val(package_metadata(metadata[r])),
                                 nd.slide[1].identifier)
           data == iwa_to_dict(container[r], SlidePath(Val(comp)))
       IN IF nd.slide = <<>>
          THEN /\ Fail(r, "AttributeError")
               /\ UNCHANGED <<store, number, slides, log, decoded>>
          ELSE IF Raised(comp)
          THEN /\ Fail(r, comp.exc)
               /\ UNCHANGED <<store, number, slides, log, decoded>>
          ELSE \E chunk \in {TryBlock(r, data)} :
               /\ store' = RegisterAll(store, chunk.registered)
               /\ IF Raised(data) THEN UNCHANGED decoded
                  ELSE Decoding(r, SlidePath(Val(comp)), chunk)
               /\ IF Raised(chunk) /\ ~ExceptException(chunk.exc)
                  THEN /\ Fail(r, chunk.exc)
                       /\ UNCHANGED <<number, slides, log>>
                  ELSE /\ pc' = [pc EXCEPT ![r] = "nodes"]
                       /\ number' = [number EXCEPT ![r] = i + 1]
                       /\ UNCHANGED record
                       /\ IF Raised(chunk)
                          THEN /\ log' = [log EXCEPT ![r] =
                                           Append(@, [slide |-> i,
                                                      path |-> container[r].path,
                                                      exc |-> chunk.exc])]
                               /\ UNCHANGED slides
                          ELSE /\ slides' = [slides EXCEPT ![r] =
                                       AppendSlide(@, MakeSlide(r, Val(chunk),
                                                                i, nd))]
                               /\ UNCHANGED log
    /\ UNCHANGED <<container, metadata, document, tree, treeIdx, node,
                   yielded, resolved, previous, batch, exported, meili>>

\* The generator is exhausted: KeynoteFile.slides returns and record()
\* collects slide.record() of every slide
BuildRecord(r) ==
    /\ pc[r] = "nodes"
    /\ treeIdx[r] = Len(tree[r])
    /\ pc' = [pc EXCEPT ![r] = "done"]
    /\ record' = [record EXCEPT ![r] = KeynoteFile_record(r)]
    /\ UNCHANGED <<container, store, metadata, document, tree, treeIdx,
                   number, node, slides, log, yielded, resolved, decoded,
                   previous, batch, exported, meili>>

Next ==
    \E r \in Runs :
        \/ Open(r)
        \/ DecodeMetadata(r)
        \/ DecodeDocument(r)
        \/ StartNodes(r)
        \/ NextNode(r)
        \/ SlideBody(r)
        \/ BuildRecord(r)

Spec == Init /\ [][Next]_vars

----------------------------------------------------------------------------
(* Extracting a container again: a new KeynoteFile on the same path in the *)
(* same process.  Archive._store is a class attribute and outlives the     *)
(* KeynoteFile; everything else belongs to the instance.                   *)

Reextract(r) ==
    /\ pc[r] \in {"done", "failed"}
    /\ previous[r].status = "pending"
    /\ previous' = [previous EXCEPT ![r] = record[r]]
    /\ pc' = [pc EXCEPT ![r] = "init"]
    /\ metadata' = [metadata EXCEPT ![r] = [archives |-> <<>>]]
    /\ document' = [document EXCEPT ![r] = [archives |-> <<>>]]
    /\ tree' = [tree EXCEPT ![r] = <<>>]
    /\ treeIdx' = [treeIdx EXCEPT ![r] = 0]
    /\ number' = [number EXCEPT ![r] = 0]
    /\ node' = [node EXCEPT ![r] = <<>>]
    /\ slides' = [slides EXCEPT ![r] = <<>>]
    /\ log' = [log EXCEPT ![r] = <<>>]
    /\ yielded' = [yielded EXCEPT ![r] = <<>>]
    /\ record' = [record EXCEPT ![r] = NoRecord]
    /\ UNCHANGED <<container, store, resolved, decoded, batch, exported, meili>>

\* Run A extracts its container twice, run B another document once
ContainersTwice ==
    {[r \in Runs |-> IF r = "A" THEN ContainerOf(pa, PathA)
                     ELSE ContainerOf(pb, PathB)]
        : pa \in {Param("none", 0)}
                    \cup {Param("dangling", k) : k \in 1..MaxSlides},
          pb \in {Param("none", 0), Param("short", 0)}}

InitTwice ==
    container \in ContainersTwice /\ Fresh /\ batch = NoBatch /\ meili = NoMeili

NextTwice == Next \/ Reextract("A")

SpecTwice == InitTwice /\ [][NextTwice]_vars

----------------------------------------------------------------------------
(* Documents whose payloads deviate from the schema or whose object graph  *)
(* is incomplete, extracted beside a plain document                        *)

DecodeParams ==
    {Param(kd, 0) : kd \in {"none"} \cup SchemaDocKinds}
    \cup {Param(kd, k) : kd \in SchemaPosKinds \cup {"dangling", "nocomponent"},
                         k \in 1..MaxSlides}

ContainersDecode ==
    {[r \in Runs |-> IF r = "A" THEN ContainerOf(pa, PathA)
                     ELSE ContainerOf(Param("none", 0), PathB)]
        : pa \in DecodeParams}

InitDecode ==
    container \in ContainersDecode /\ Fresh /\ batch = NoBatch /\ meili = NoMeili

SpecDecode == InitDecode /\ [][Next]_vars

----------------------------------------------------------------------------
(* index.index_path: the documents found under a root are extracted one    *)
(* after the other, records = [_index_file(p, thumbnails) for p in paths],  *)
(* here without thumbnail export (thumbnails=None).                        *)

BatchParams ==
    {Param(kd, 0) : kd \in {"none", "short", "unopenable"}}
    \cup {Param(kd, k) : kd \in {"absent", "dangling"}, k \in 1..MaxSlides}

ContainersBatch ==
    {[r \in Runs |-> IF r = "A" THEN ContainerOf(pa, PathA)
                     ELSE ContainerOf(pb, PathB)]
        : pa \in BatchParams, pb \in BatchParams}

\* paths: the files rglob found, after the filters; output is a path or None
InitBatch ==
    /\ container \in ContainersBatch
    /\ Fresh
    /\ \E w \in BOOLEAN : batch = [NoBatch EXCEPT !.paths = <<"A", "B">>,
                                                  !.write = w]
    /\ meili = NoMeili

\* The document the comprehension is at
Current(r) ==
    /\ batch.raised = "none"
    /\ batch.pos <= Len(batch.paths)
    /\ batch.paths[batch.pos] = r

\* _index_file(p): with KeynoteFile(fpath) as kf
IndexFile(r) == Current(r) /\ Open(r)

\* _index_file(p) returns kf.record(), which the comprehension collects
IndexFileReturn(r) ==
    /\ Current(r)
    /\ pc[r] = "done" /\ record[r].status = "ok"
    /\ batch' = [batch EXCEPT !.pos = @ + 1,
                              !.records = Append(@, record[r])]
    /\ UNCHANGED <<container, pc, store, metadata, document, tree, treeIdx,
                   number, node, slides, log, yielded, resolved, record,
                   decoded, previous, exported, meili>>

\* KeynoteFile(fpath) or kf.record() raised: nothing in _index_file or
\* index_path catches it, the comprehension and index_path end with it
IndexFileRaise(r) ==
    /\ Current(r)
    /\ pc[r] \in {"done", "failed"} /\ record[r].status = "error"
    /\ batch' = [batch EXCEPT !.raised = record[r].exc]
    /\ UNCHANGED <<container, pc, store, metadata, document, tree, treeIdx,
                   number, node, slides, log, yielded, resolved, record,
                   decoded, previous, exported, meili>>

\* if output is not None: Path(output).write_text(json.dumps(records));
\* return records
IndexPathReturn ==
    /\ batch.raised = "none"
    /\ batch.pos = Len(batch.paths) + 1
    /\ ~batch.returned
    /\ batch' = [batch EXCEPT !.returned = TRUE,
                              !.output = IF batch.write THEN <<batch.records>>
                                         ELSE <<>>]
    /\ UNCHANGED <<container, pc, store, metadata, document, tree, treeIdx,
                   number, node, slides, log, yielded, resolved, record,
                   decoded, previous, exported, meili>>

NextBatch ==
    \/ \E r \in Runs :
          \/ IndexFile(r)
          \/ DecodeMetadata(r)
          \/ DecodeDocument(r)
          \/ StartNodes(r)
          \/ NextNode(r)
          \/ SlideBody(r)
          \/ BuildRecord(r)
          \/ IndexFileReturn(r)
          \/ IndexFileRaise(r)
    \/ IndexPathReturn

SpecBatch == InitBatch /\ [][NextBatch]_vars

----------------------------------------------------------------------------
(* index._index_file with a thumbnail destination: kf.export_thumbnails    *)
(* and then kf.record().  KeynoteFile decodes its Metadata and Document    *)
(* entries on first use, each once, and builds its slide list once; the    *)
(* steps of a run up to the slide list are those of record().              *)

\* One pass of the loop of export_thumbnails: the exception that left the
\* with block, if any
ExportOutcome(s) ==
    LET name == Slide_safe_thumb_hash(s)
        bytes == Slide_thumbnail_bytes(s)
    IN IF Raised(name) THEN name.exc
       ELSE IF Raised(bytes) THEN bytes.exc
       ELSE "none"

\* with suppress(KeyError)
Suppressed(exc) == exc = "KeyError"

RECURSIVE ExportWrites(_)
\* for slide in self.slides: the files written, and the exception that
\* ended the loop, if any
ExportWrites(ss) ==
    IF ss = <<>> THEN [exc |-> "none", writes |-> <<>>]
    ELSE LET exc == ExportOutcome(ss[1])
             rest == ExportWrites(Tail(ss))
         IN IF exc = "none"
            THEN [rest EXCEPT !.writes =
                    <<[name |-> Val(Slide_safe_thumb_hash(ss[1])) \o <<".jpg">>,
                       bytes |-> Val(Slide_thumbnail_bytes(ss[1]))]>> \o @]
            ELSE IF Suppressed(exc) THEN rest
            ELSE [exc |-> exc, writes |-> <<>>]

\* KeynoteFile.export_thumbnails(dest), once self.slides is built
ExportThumbnails(r) ==
    /\ pc[r] = "nodes"
    /\ treeIdx[r] = Len(tree[r])
    /\ LET out == ExportWrites(slides[r])
       IN /\ exported' = [exported EXCEPT ![r] = out.writes]
          /\ IF out.exc # "none" THEN Fail(r, out.exc)
             ELSE /\ pc' = [pc EXCEPT ![r] = "exported"]
                  /\ UNCHANGED record
    /\ UNCHANGED <<container, store, metadata, document, tree, treeIdx,
                   number, node, slides, log, yielded, resolved, decoded,
                   previous, batch, meili>>

\* return kf.record(), after the export
RecordAfterExport(r) ==
    /\ pc[r] = "exported"
    /\ pc' = [pc EXCEPT ![r] = "done"]
    /\ record' = [record EXCEPT ![r] = KeynoteFile_record(r)]
    /\ UNCHANGED <<container, store, metadata, document, tree, treeIdx,
                   number, node, slides, log, yielded, resolved, decoded,
                   previous, batch, exported, meili>>

ExportParams ==
    {Param(kd, 0) : kd \in {"none", "shared", "eqdigest"}}
    \cup {Param(kd, k) : kd \in DataPosKinds
                                 \cup {"nothumbref", "nothumbdata", "absent"},
                         k \in 1..MaxSlides}

ContainersExport ==
    {[r \in Runs |-> IF r = "A" THEN ContainerOf(pa, PathA)
                     ELSE ContainerOf(Param("none", 0), PathB)]
        : pa \in ExportParams}

InitExport ==
    container \in ContainersExport /\ Fresh /\ batch = NoBatch /\ meili = NoMeili

NextExport ==
    \E r \in Runs :
        \/ Open(r)
        \/ DecodeMetadata(r)
        \/ DecodeDocument(r)
        \/ StartNodes(r)
        \/ NextNode(r)
        \/ SlideBody(r)
        \/ ExportThumbnails(r)
        \/ RecordAfterExport(r)

SpecExport == InitExport /\ [][NextExport]_vars

----------------------------------------------------------------------------
(* meili.py: meili_main hands the records of an index file to the search   *)
(* server, beside a server for the exported thumbnails                     *)

\* The polls of the health check after which meili_client gives up
MaxPolls == 20

\* d.pop(key, None), as the dict left behind
Pop(d, key) == [k \in DOMAIN d \ {key} |-> d[k]]

\* {**a, **b}
Merge(a, b) == b @@ a

\* d[key] = value
SetItem(d, key, value) == (key :> value) @@ d

\* Truth value of an optional string: None is <<>>, a string s is <<s>>
Truthy(opt) == opt # <<>> /\ opt[1] # ""

RECURSIVE ArrangeSlides(_, _, _, _, _)
\* The inner loop of _arrange_records over the slide records `pending`.
\* `current` is the loop's variable `record`: it is rebound by
\* `record = {**record, **slide}` and is what the next pass merges into.
ArrangeSlides(current, pending, thumb_url, skip_dupes, seen) ==
    IF pending = <<>> THEN [docs |-> <<>>, seen |-> seen]
    ELSE LET merged == Merge(current, pending[1])
             asked == Truthy(thumb_url)
             digest == IF asked /\ "thumb_digest" \in DOMAIN merged
                       THEN <<merged["thumb_digest"]>> ELSE <<>>
             popped == IF asked THEN Pop(merged, "thumb_digest") ELSE merged
             dupe == Truthy(digest) /\ skip_dupes /\ digest[1] \in seen
             kept == Truthy(digest) /\ ~dupe
             out == IF kept
                    THEN SetItem(popped, "thumbnail",
                                 thumb_url[1] \o "/" \o digest[1] \o ".jpg")
                    ELSE popped
             rest == ArrangeSlides(out, Tail(pending), thumb_url, skip_dupes,
                                   IF kept THEN seen \cup {digest[1]} ELSE seen)
         IN IF dupe THEN rest
            ELSE [rest EXCEPT !.docs = <<out>> \o @]

RECURSIVE ArrangeRecords(_, _, _, _)
\* The outer loop: for record in records: for slide in record.pop("slides")
ArrangeRecords(records, thumb_url, skip_dupes, seen) ==
    IF records = <<>> THEN <<>>
    ELSE LET first == ArrangeSlides(Pop(records[1], "slides"),
                                    records[1]["slides"], thumb_url,
                                    skip_dupes, seen)
         IN first.docs \o ArrangeRecords(Tail(records), thumb_url, skip_dupes,
                                         first.seen)

\* _arrange_records(records, thumb_url, skip_dupes=True)
arrange_records(records, thumb_url, skip_dupes) ==
    ArrangeRecords(records, thumb_url, skip_dupes, {})

\* The slide records of an index file: stable id, ordinal, text, and a
\* thumb_digest that may be absent or empty
SlideRecordsOf(d, j) ==
    LET base == [id |-> "D" \o ToString(d) \o "s" \o ToString(j),
                 slide_number |-> j - 1,
                 text_blocks |-> "t" \o ToString(j)]
    IN {base} \cup {SetItem(base, "thumb_digest", g) : g \in {"", "a", "b"}}

\* The document records of n slides
DocumentRecordsOf(d, n) ==
    {[path |-> "p" \o ToString(d), id |-> "D" \o ToString(d),
      slides |-> ss] :
        ss \in {q \in [1..n -> UNION {SlideRecordsOf(d, j) : j \in 1..n}] :
                   \A j \in 1..n : q[j] \in SlideRecordsOf(d, j)}}

\* The index files: one document, or the document and a second one of a
\* single slide whose thumbnail is the asset "a"
RecordLists ==
    LET firsts == UNION {DocumentRecordsOf(1, n) : n \in 1..MaxSlides}
        second == [path |-> "p2", id |-> "D2",
                   slides |-> <<[id |-> "D2s1", slide_number |-> 0,
                                 text_blocks |-> "t1", thumb_digest |-> "a"]>>]
    IN {<<d>> : d \in firsts} \cup {<<d, second>> : d \in firsts}

\* The index as meili_main finds it
OldIndex == [exists |-> TRUE, docs |-> <<[id |-> "old"]>>]

\* The calls of meili_main and their surroundings:
\*   thumb_dir   "none" (None), "missing" or "exists"
\*   port_busy   a server listens on the thumbnail host and port
\*   healthy     a search server answers before any is started
\*   starts      a started search server may come to answer
\*   status      the status the add-documents task ends with
MeiliCalls ==
    {[pc |-> "start", records |-> recs, thumb_dir |-> t.dir,
      port_busy |-> t.busy, healthy |-> h.healthy, starts |-> h.starts,
      status |-> st, i |-> 0, proc |-> "none", index |-> OldIndex,
      thumb_server |-> "none", thumb_url |-> <<>>, docs |-> <<>>,
      exc |-> "none"] :
        recs \in RecordLists,
        t \in {[dir |-> "none", busy |-> FALSE],
               [dir |-> "missing", busy |-> FALSE],
               [dir |-> "exists", busy |-> FALSE],
               [dir |-> "exists", busy |-> TRUE]},
        h \in {[healthy |-> TRUE, starts |-> FALSE],
               [healthy |-> FALSE, starts |-> TRUE],
               [healthy |-> FALSE, starts |-> FALSE]},
        st \in {"succeeded", "failed"}}

\* The extraction engine does not run during meili_main
extraction == <<container, pc, store, metadata, document, tree, treeIdx,
                number, node, slides, log, yielded, resolved, record,
                decoded, previous, batch, exported>>

\* Only the directory is checked before the search server is used
ThumbChecksDirOnly(dir, busy) ==
    IF dir = "missing" THEN "FileNotFoundError" ELSE "none"

\* The checks of the thumbnail set-up: the exception raised, if any
ThumbChecks(dir, busy) ==
    IF dir = "none" THEN "none"
    ELSE IF dir = "missing" THEN "FileNotFoundError"
    ELSE IF busy THEN "RuntimeError"
    ELSE "none"

\* An exception leaves the body of `with meili_client(...)`, or the body
\* ends: the thumbnail server, if serving, is shut down and joined, and the
\* finally clause of meili_client terminates and waits for the process it
\* started
LeaveClient(m, to, exc) ==
    [m EXCEPT !.pc = to, !.exc = exc,
              !.thumb_server = IF @ = "serving" THEN "shutdown" ELSE @,
              !.proc = IF @ = "running" THEN "waited" ELSE @]

\* meili_main up to `with meili_client`: the thumbnail set-up.
\* thumbnail_server(...) only creates the context manager.
ThumbSetup ==
    /\ meili.pc = "start"
    /\ LET exc == ThumbChecks(meili.thumb_dir, meili.port_busy)
       IN meili' = IF exc # "none"
                   THEN [meili EXCEPT !.pc = "raised", !.exc = exc]
                   ELSE [meili EXCEPT !.pc = "setup",
                                      !.thumb_server =
                                          IF meili.thumb_dir = "none"
                                          THEN "null" ELSE "created"]
    /\ UNCHANGED extraction

\* meili_client up to the polling loop: a process is started unless a
\* server answers already
ClientEnter ==
    /\ meili.pc = "setup"
    /\ meili' = IF meili.healthy
                THEN [meili EXCEPT !.pc = "client"]
                ELSE [meili EXCEPT !.pc = "polling", !.proc = "running",
                                   !.i = 0]
    /\ UNCHANGED extraction

\* while not client.is_healthy(): sleep, count, give up after MaxPolls.
\* The TimeoutError is raised before the try block of meili_client.
Poll ==
    /\ meili.pc = "polling"
    /\ \E answers \in (IF meili.starts THEN BOOLEAN ELSE {FALSE}) :
          meili' = IF answers THEN [meili EXCEPT !.pc = "client"]
                   ELSE IF meili.i + 1 > MaxPolls
                   THEN [meili EXCEPT !.pc = "raised", !.i = @ + 1,
                                      !.exc = "TimeoutError"]
                   ELSE [meili EXCEPT !.i = @ + 1]
    /\ UNCHANGED extraction

\* idx = client.index(index); idx.delete()
DeleteIndex ==
    /\ meili.pc = "client"
    /\ meili' = [meili EXCEPT !.pc = "deleted",
                              !.index = [exists |-> FALSE, docs |-> <<>>]]
    /\ UNCHANGED extraction

\* with thumb_server as thumb_url: HTTPServer binds the port (OSError when
\* it is taken) and serves; nullcontext gives None
ServeThumbs ==
    /\ meili.pc = "deleted"
    /\ meili' = IF meili.thumb_server = "null"
                THEN [meili EXCEPT !.pc = "serving"]
                ELSE IF meili.port_busy
                THEN LeaveClient(meili, "raised", "OSError")
                ELSE [meili EXCEPT !.pc = "serving",
                                   !.thumb_server = "serving",
                                   !.thumb_url = <<"http://thumbs">>]
    /\ UNCHANGED extraction

\* idx.add_documents(_arrange_records(records, thumb_url)), wait for the
\* task; on success the browser is opened and meili_main loops for ever,
\* otherwise both with blocks end
AddDocuments ==
    /\ meili.pc = "serving"
    /\ LET docs == arrange_records(meili.records, meili.thumb_url, TRUE)
       IN meili' = IF meili.status = "succeeded"
                   THEN [meili EXCEPT !.pc = "waiting", !.docs = <<docs>>,
                                      !.index = [exists |-> TRUE,
                                                 docs |-> docs]]
                   ELSE [LeaveClient(meili, "exited", "none")
                            EXCEPT !.docs = <<docs>>]
    /\ UNCHANGED extraction

\* An exception in the body of `with meili_client`: an error of the
\* search client, or Ctrl+C during the final loop
BodyRaises ==
    /\ meili.pc \in {"client", "serving", "waiting"}
    /\ meili' = LeaveClient(meili, "raised",
                            IF meili.pc = "waiting" THEN "KeyboardInterrupt"
                            ELSE "MeilisearchError")
    /\ UNCHANGED extraction

InitMeili ==
    /\ container = [r \in Runs |-> ContainerOf(Param("none", 0), PathA)]
    /\ Fresh
    /\ batch = NoBatch
    /\ meili \in MeiliCalls

NextMeili ==
    \/ ThumbSetup
    \/ ClientEnter
    \/ Poll
    \/ DeleteIndex
    \/ ServeThumbs
    \/ AddDocuments
    \/ BodyRaises

SpecMeili == InitMeili /\ [][NextMeili]_vars

----------------------------------------------------------------------------
(* Vocabulary of the properties                                            *)

\* KeynoteFile.slides has returned its list to the caller
SlidesBuilt(r) ==
    \/ pc[r] = "done"
    \/ pc[r] = "nodes" /\ treeIdx[r] = Len(tree[r])

\* The run's own package metadata, as decoded
OwnMetadata(r) == Val(package_metadata(metadata[r]))

\* The backing entry of a yielded node, read from the run's own container
BackingEntry(r, nd) ==
    iwa_to_dict(container[r],
                SlidePath(Val(get_component(OwnMetadata(r),
                                            nd.slide[1].identifier))))

\* The yielded nodes the loop body has dealt with
Processed(r) == SubSeq(yielded[r], 1, number[r])

\* The slide of node nd with ordinal i, if its backing entry is readable
ReadableSlide(r, nd, i, entry) ==
    IF Raised(entry) THEN <<>>
    ELSE <<[archives |-> Val(ConvertChunk(r, Val(entry))).archives,
            number |-> i,
            node_archive |-> nd,
            keynote |-> r]>>

RECURSIVE ReadableSlides(_, _, _)
\* The slides of the nodes ys (ordinals from i on) whose entry is readable
ReadableSlides(r, ys, i) ==
    IF ys = <<>> THEN <<>>
    ELSE ReadableSlide(r, ys[1].node, i, BackingEntry(r, ys[1].node))
         \o ReadableSlides(r, Tail(ys), i + 1)

Unreadable(r) ==
    {j \in 1..Len(Processed(r)) : Raised(BackingEntry(r, Processed(r)[j].node))}

\* C1: when the slide list is built from N slide nodes of which exactly one
\* has an absent or undecodable backing entry, the list has N-1 slides, each
\* of them the slide it would be were every entry readable (same archives,
\* same ordinal, same node), and the unreadable entry never ends the run
\* with an exception.
C1_UnreadableEntryOmitsOnlyThatSlide ==
    \A r \in Runs :
        /\ pc[r] \in {"nodes", "slide", "done"}
            => slides[r] = ReadableSlides(r, Processed(r), 0)
        /\ SlidesBuilt(r) /\ Cardinality(Unreadable(r)) = 1
            => /\ Len(slides[r]) = Len(yielded[r]) - 1
               /\ Len(log[r]) = 1
        /\ pc[r] = "failed" /\ number[r] < Len(yielded[r])
            => LET nd == yielded[r][Len(yielded[r])].node
               IN \/ nd.slide = <<>>
                  \/ Raised(get_component(OwnMetadata(r),
                                          nd.slide[1].identifier))

\* C1 witness: a tree of two nodes was walked to its end, one entry was
\* unreadable, the other slide is in the list
C1_Witness ==
    \E r \in Runs :
        /\ SlidesBuilt(r)
        /\ Len(yielded[r]) = 2
        /\ Cardinality(Unreadable(r)) = 1
        /\ Len(slides[r]) = 1

\* Tree index of the node a slide of the list was built from
TreePos(r, s) == yielded[r][s.number + 1].pos

\* C2: the slides of KeynoteFile.slides, and the slide records of the
\* document record, are in slide-tree order with increasing ordinals,
\* whatever the order of the entry names.
C2_SlidesInTreeOrder ==
    \A r \in Runs :
        /\ \A j \in 1..Len(slides[r]) - 1 :
              /\ slides[r][j].number < slides[r][j + 1].number
              /\ TreePos(r, slides[r][j]) < TreePos(r, slides[r][j + 1])
        /\ pc[r] = "done" /\ record[r].status = "ok"
            => /\ Len(record[r].slides) = Len(slides[r])
               /\ \A j \in 1..Len(slides[r]) :
                    /\ record[r].slides[j].slide_number = slides[r][j].number
                    /\ record[r].slides[j].slide_ident
                         = slides[r][j].archives[1].header.identifier

\* C2 witness: a record whose first slide is backed by the entry that
\* sorts last (Slide-2) and whose second slide by the one that sorts first
C2_Witness ==
    \E r \in Runs :
        /\ pc[r] = "done" /\ record[r].status = "ok"
        /\ Len(record[r].slides) = 2
        /\ tree[r] = <<[identifier |-> NodeId(2)], [identifier |-> NodeId(1)]>>
        /\ record[r].slides[1].slide_ident = SlideId(2)
        /\ record[r].slides[2].slide_ident = SlideId(1)
        /\ record[r].slides[1].slide_number < record[r].slides[2].slide_number

\* v occurs in t as a run of consecutive characters
Contains(t, v) ==
    \E i \in 1..(Len(t) - Len(v) + 1) : SubSeq(t, i, i + Len(v) - 1) = v

\* The text-storage objects of a slide that carry text, in decode order
StorageObjects(s) ==
    SelectSeq(AllObjects(s.archives),
              LAMBDA o : o.pbtype = "TSWP.StorageArchive"
                         /\ StorageText(o) # <<>>)

\* C3: in every slide record, the text of a notes-kind text-storage object
\* is in presenter_notes and not in text_blocks, and the text of a
\* text-storage object of any other kind is in text_blocks and not in
\* presenter_notes.
C3_NotesOnlyInNotesTextOnlyInText ==
    \A r \in Runs :
        pc[r] = "done" /\ record[r].status = "ok" =>
            \A j \in 1..Len(slides[r]) :
                LET objs == StorageObjects(slides[r][j])
                    rec == record[r].slides[j]
                IN \A o \in 1..Len(objs) :
                      IF objs[o].kind = "NOTE"
                      THEN /\ Contains(rec.presenter_notes, StorageText(objs[o]))
                           /\ ~Contains(rec.text_blocks, StorageText(objs[o]))
                      ELSE /\ Contains(rec.text_blocks, StorageText(objs[o]))
                           /\ ~Contains(rec.presenter_notes, StorageText(objs[o]))

\* A slide whose node names no thumbnail, or one absent from the data table
LacksThumbnail(s) ==
    \/ s.node_archive.thumbnails = <<>>
    \/ s.node_archive.thumbnails[1].identifier
          \notin DOMAIN OwnMetadata(s.keynote).data_map

\* C4: a slide without thumbnail reference, or whose thumbnail data item is
\* absent from the data table, still gets its record, with its text and
\* notes, and KeynoteFile.record() succeeds.
C4_MissingThumbnailIsNoError ==
    \A r \in Runs :
        pc[r] = "done" /\ (\E j \in 1..Len(slides[r]) : LacksThumbnail(slides[r][j]))
            => /\ record[r].status = "ok"
               /\ Len(record[r].slides) = Len(slides[r])
               /\ \A j \in 1..Len(slides[r]) :
                    /\ record[r].slides[j].text_blocks
                         = Join(Slide_text_blocks(slides[r][j]), <<"NL">>)
                    /\ record[r].slides[j].presenter_notes
                         = Slide_presenter_notes(slides[r][j])

\* C5: every reference resolved while building a document yields an archive
\* decoded from that document's own container.
C5_ResolvesOwnArchivesOnly ==
    \A r \in Runs : \A x \in resolved[r] : x.owner = r

\* The identifiers a lookup may be asked for
LookupIds ==
    UNION {{SlideId(k), ThumbId(k), ThumbId(k) + 10} : k \in 1..MaxSlides}

\* The package-metadata object as stored in the run's container
StoredMetadata(r) ==
    container[r].iwa["Index/Metadata.iwa"].archives[1].objects[1]

MetadataDecoded(r) == metadata[r].archives # <<>>

\* A lookup answers from the table `items` alone
AnswersFrom(res, items, id) ==
    IF \E j \in 1..Len(items) : items[j].identifier = id
    THEN /\ ~Raised(res)
         /\ \E j \in 1..Len(items) : items[j] = Val(res) /\ items[j].identifier = id
    ELSE res = Raise("KeyError")

\* C6: whatever other documents were decoded before, a component lookup or
\* data-item lookup for a document answers from that document's own
\* metadata table: an identifier absent from it raises KeyError even when
\* another document's table holds it.
C6_LookupsUseOwnTable ==
    \A r \in Runs :
        MetadataDecoded(r) =>
            \A id \in LookupIds :
                /\ AnswersFrom(get_component(OwnMetadata(r), id),
                               StoredMetadata(r).components, id)
                /\ AnswersFrom(get_data_item(OwnMetadata(r), id),
                               StoredMetadata(r).datas, id)

\* C6 witness: run r decoded its metadata after run o, looked up a
\* thumbnail that only o's data table holds, and the lookup failed
C6_Witness ==
    \E r, o \in Runs :
        /\ r # o /\ MetadataDecoded(r) /\ MetadataDecoded(o)
        /\ store[3].owner = r
        /\ pc[r] = "done" /\ record[r].exc = "KeyError"
        /\ \E j \in 1..Len(slides[r]) :
              LET th == slides[r][j].node_archive.thumbnails
              IN /\ th # <<>>
                 /\ th[1].identifier \notin DOMAIN OwnMetadata(r).data_map
                 /\ th[1].identifier \in DOMAIN OwnMetadata(o).data_map

Finished(r) == pc[r] \in {"done", "failed"}

\* C7: extracting the same unmodified container twice yields identical
\* document records, whatever other documents were extracted before or
\* between the two extractions.
C7_ReextractionYieldsSameRecord ==
    \A r \in Runs :
        Finished(r) /\ previous[r].status # "pending"
            => record[r] = previous[r]

Extracted(r) == pc[r] = "done" /\ record[r].status = "ok"

\* The slide records of the finished extractions, with their document's
SlideRecordsOut ==
    UNION {{[doc |-> record[r], slide |-> record[r].slides[j]]
              : j \in 1..Len(record[r].slides)}
           : r \in {x \in Runs : Extracted(x)}}

Triple(x) == <<x.doc.id, x.doc.revision, x.slide.slide_ident>>

\* C8: the stable id of a slide record is the hash of the document UUID
\* string, the revision string and the slide's native identifier string,
\* concatenated in that order; slides with equal triples have equal ids,
\* whatever their path, ordinal, text and thumbnail.
C8_StableIdIsHashOfTriple ==
    /\ \A x \in SlideRecordsOut :
          x.slide.id = UrlsafeB64NoPad(First16(Sha256(
                          x.doc.id \o x.doc.revision
                              \o ToString(x.slide.slide_ident))))
    /\ \A x, y \in SlideRecordsOut :
          Triple(x) = Triple(y) => x.slide.id = y.slide.id

\* C8 witness: two slide records with equal triples and different path,
\* ordinal, text and thumbnail digest
C8_Witness ==
    \E x, y \in SlideRecordsOut :
        /\ Triple(x) = Triple(y)
        /\ x.doc.path # y.doc.path
        /\ x.slide.slide_number # y.slide.slide_number
        /\ x.slide.text_blocks # y.slide.text_blocks
        /\ x.slide.thumb_digest # y.slide.thumb_digest
        /\ x.slide.id = y.slide.id

\* A container with its path and revision identifier blanked
ModuloRevision(c) ==
    [c EXCEPT !.path = <<>>,
              !.iwa["Index/Metadata.iwa"].archives[1].objects[1]
                    .revision.identifier = ""]

DifferOnlyInRevision(a, b) ==
    /\ StoredMetadata(a).revision.identifier
          # StoredMetadata(b).revision.identifier
    /\ ModuloRevision(container[a]) = ModuloRevision(container[b])

\* C9: two extractions that differ only in the document's revision
\* identifier give every slide a different stable id and the same native
\* identifier.
C9_RevisionChangesEveryStableId ==
    \A a, b \in Runs :
        Extracted(a) /\ Extracted(b) /\ DifferOnlyInRevision(a, b)
            => /\ Len(record[a].slides) = Len(record[b].slides)
               /\ \A j \in 1..Len(record[a].slides) :
                    /\ record[a].slides[j].slide_ident
                         = record[b].slides[j].slide_ident
                    /\ record[a].slides[j].id # record[b].slides[j].id

\* C9 witness: both extractions finished with all their slides
C9_Witness ==
    \E a, b \in Runs :
        /\ Extracted(a) /\ Extracted(b) /\ DifferOnlyInRevision(a, b)
        /\ Len(record[a].slides) = MaxSlides
        /\ record[a].revision # record[b].revision
        /\ record[a].id = record[b].id

\* The slides of the finished extractions beside their records
SlidesOut ==
    UNION {{[s |-> slides[r][j], rec |-> record[r].slides[j]]
              : j \in 1..Len(slides[r])}
           : r \in {x \in Runs : Extracted(x)}}

\* The data item the slide node's first thumbnail reference names, as
\* stored in the container's metadata table
StoredThumbnail(s) ==
    LET items == StoredMetadata(s.keynote).datas
    IN items[CHOOSE j \in 1..Len(items) :
                items[j].identifier = s.node_archive.thumbnails[1].identifier]

\* C10: thumb_digest is computed from the digest stored in the metadata
\* data table for the data item of the slide node's first thumbnail
\* reference and from nothing else: slides with equal stored digests have
\* equal thumb_digest.
C10_ThumbDigestFromStoredDigest ==
    /\ \A x \in SlidesOut :
          x.rec.thumb_digest = safe_hash(StoredThumbnail(x.s).digest)
    /\ \A x, y \in SlidesOut :
          StoredThumbnail(x.s).digest = StoredThumbnail(y.s).digest
              => x.rec.thumb_digest = y.rec.thumb_digest

\* C10 witness: two distinct slides of a document, with the same stored
\* digest and different stored file names and bytes
C10_Witness ==
    \E x, y \in SlidesOut :
        /\ x.s.keynote = y.s.keynote
        /\ x.rec.slide_ident # y.rec.slide_ident
        /\ StoredThumbnail(x.s).digest = StoredThumbnail(y.s).digest
        /\ StoredThumbnail(x.s).fileName # StoredThumbnail(y.s).fileName
        /\ container[x.s.keynote].data["Data/" \o StoredThumbnail(x.s).fileName]
              # container[y.s.keynote].data["Data/" \o StoredThumbnail(y.s).fileName]
        /\ x.rec.thumb_digest = y.rec.thumb_digest

----------------------------------------------------------------------------
(* Decoding against the schema                                             *)

\* The objects of an entry's payload, as <<archive index, object index>>
ObjectsAt(entry) ==
    {<<j, o>> : j \in 1..Len(entry.archives), o \in 1..3}
        \ {x \in (1..Len(entry.archives)) \X (1..3) :
                x[2] > Len(entry.archives[x[1]].objects)}

PayloadAt(entry, x) == entry.archives[x[1]].objects[x[2]]

UnknownTags(entry) ==
    {x \in ObjectsAt(entry) : PayloadAt(entry, x).pbtype \notin Registry}

\* The convert() calls so far, each beside the payload it was given
Decodes ==
    UNION {{[run |-> r, name |-> decoded[r][j].name,
             res |-> [exc |-> decoded[r][j].exc,
                      val |-> IF decoded[r][j].exc # "none" THEN <<>>
                              ELSE <<[archives |-> decoded[r][j].registered]>>,
                      registered |-> decoded[r][j].registered],
             entry |-> container[r].iwa[decoded[r][j].name]]
              : j \in 1..Len(decoded[r])} : r \in Runs}

\* C11: decoding a chunk that holds an object of an unknown tag succeeds;
\* that object is kept as an opaque object with its tag and raw fields, and
\* every other object of the chunk decodes as it does by itself.
C11_UnknownTagDecodesToOpaque ==
    \A d \in Decodes :
        UnknownTags(d.entry) # {} =>
            /\ ~Raised(d.res)
            /\ Len(Val(d.res).archives) = Len(d.entry.archives)
            /\ \A x \in ObjectsAt(d.entry) :
                  LET got == Val(d.res).archives[x[1]].objects[x[2]]
                  IN IF x \in UnknownTags(d.entry)
                     THEN got = PayloadAt(d.entry, x)
                     ELSE Ok(got) = ConvertObject(PayloadAt(d.entry, x))

\* The objects of a payload that lack a field their class requires
MissingRequired(entry) ==
    {x \in ObjectsAt(entry) \ UnknownTags(entry) :
        ~(Schema(PayloadAt(entry, x).pbtype).required
              \subseteq DOMAIN PayloadAt(entry, x))}

\* The objects of a payload that lack a field their class gives a default
MissingOptional(entry) ==
    {x \in ObjectsAt(entry) \ (UnknownTags(entry) \cup MissingRequired(entry)) :
        ~(DOMAIN Schema(PayloadAt(entry, x).pbtype).defaults
              \subseteq DOMAIN PayloadAt(entry, x))}

\* C12: an object whose payload omits an optional field decodes, the field
\* taking the schema default; an object whose payload omits a required
\* field fails alone: the other objects of its chunk are decoded and the
\* chunk is there without it.
C12_MissingOptionalDefaultsMissingRequiredFailsAlone ==
    \A d \in Decodes :
        /\ UnknownTags(d.entry) = {} /\ MissingRequired(d.entry) = {}
            => /\ ~Raised(d.res)
               /\ \A x \in MissingOptional(d.entry) :
                     LET got == Val(d.res).archives[x[1]].objects[x[2]]
                         sch == Schema(PayloadAt(d.entry, x).pbtype)
                     IN \A f \in DOMAIN sch.defaults \ DOMAIN PayloadAt(d.entry, x) :
                           got[f] = sch.defaults[f]
        /\ UnknownTags(d.entry) = {} /\ MissingRequired(d.entry) # {}
            => /\ d.res.val # <<>>
               /\ \A x \in ObjectsAt(d.entry) \ MissingRequired(d.entry) :
                     \E j \in 1..Len(Val(d.res).archives) :
                        \E o \in 1..Len(Val(d.res).archives[j].objects) :
                           Ok(Val(d.res).archives[j].objects[o])
                               = ConvertObject(PayloadAt(d.entry, x))

\* The fields the class of a payload declares
Declared(obj) ==
    {"pbtype"} \cup Schema(obj.pbtype).required
               \cup DOMAIN Schema(obj.pbtype).defaults

\* The objects of a payload, of known tag, that carry an undeclared field
ExtraFields(entry) ==
    {x \in ObjectsAt(entry) \ UnknownTags(entry) :
        ~(DOMAIN PayloadAt(entry, x) \subseteq Declared(PayloadAt(entry, x)))}

\* A payload without its undeclared fields
WithoutExtra(obj) == [f \in DOMAIN obj \cap Declared(obj) |-> obj[f]]

\* C13: an object of known tag whose payload carries a field its class
\* does not declare decodes, and the decoded object is the one the payload
\* without that field decodes to.
C13_UndeclaredFieldIgnored ==
    \A d \in Decodes :
        ExtraFields(d.entry) # {} /\ MissingRequired(d.entry) = {}
          /\ UnknownTags(d.entry) = {}
            => /\ ~Raised(d.res)
               /\ \A x \in ExtraFields(d.entry) :
                     LET got == Val(d.res).archives[x[1]].objects[x[2]]
                     IN /\ Ok(got) = ConvertObject(WithoutExtra(PayloadAt(d.entry, x)))
                        /\ DOMAIN got \subseteq Declared(PayloadAt(d.entry, x))

\* C13 witness: a document whose slide node and slide text carry an
\* undeclared field was extracted with all its slides
C13_Witness ==
    \E r \in Runs :
        /\ pc[r] = "done" /\ record[r].status = "ok"
        /\ Len(record[r].slides) = MaxSlides
        /\ \E d, e \in Decodes :
              /\ d.run = r /\ e.run = r
              /\ d.name = "Index/Document.iwa" /\ ExtraFields(d.entry) # {}
              /\ e.name # "Index/Document.iwa" /\ ExtraFields(e.entry) # {}

----------------------------------------------------------------------------
(* References that lead nowhere                                            *)

\* The Document chunk as stored in the run's container
StoredDocument(r) == container[r].iwa["Index/Document.iwa"]

\* The slide tree of the run's own document, empty when it has no show
OwnTreeRefs(r) ==
    LET shows == {x \in ObjectsAt(StoredDocument(r)) :
                    PayloadAt(StoredDocument(r), x).pbtype = "KN.ShowArchive"}
    IN IF shows = {} THEN <<>>
       ELSE PayloadAt(StoredDocument(r), CHOOSE x \in shows : TRUE)
                .slideTree.slides

\* The slide nodes the run's own document holds in its archive `id`
OwnNodes(r, id) ==
    {x \in ObjectsAt(StoredDocument(r)) :
        /\ StoredDocument(r).archives[x[1]].header.identifier = id
        /\ PayloadAt(StoredDocument(r), x).pbtype = "KN.SlideNodeArchive"}

\* A tree reference of the run's document that names no archive, or an
\* archive without slide node, or a node without slide reference, or a
\* slide that the component table lacks
BrokenRef(r, ref) ==
    \/ OwnNodes(r, ref.identifier) = {}
    \/ \E x \in OwnNodes(r, ref.identifier) :
          /\ \A y \in OwnNodes(r, ref.identifier) : x[2] <= y[2]
          /\ LET nd == PayloadAt(StoredDocument(r), x)
             IN \/ "slide" \notin DOMAIN nd
                \/ \A j \in 1..Len(StoredMetadata(r).components) :
                      StoredMetadata(r).components[j].identifier
                          # nd.slide.identifier

BrokenRefs(r) ==
    {j \in 1..Len(OwnTreeRefs(r)) : BrokenRef(r, OwnTreeRefs(r)[j])}

\* C14: a tree reference that names no registered archive or an archive
\* without slide node, and a slide node without slide reference or whose
\* slide the component table lacks, cost that slide only: KeynoteFile.slides
\* raises nothing and returns the other slides.
C14_BrokenReferenceOmitsOnlyThatSlide ==
    \A r \in Runs :
        BrokenRefs(r) # {} =>
            /\ pc[r] # "failed"
            /\ SlidesBuilt(r) =>
                  Len(slides[r]) = Len(OwnTreeRefs(r)) - Cardinality(BrokenRefs(r))

----------------------------------------------------------------------------
(* Batches                                                                 *)

\* The documents of the batch whose extraction fails at document level
FailedDocuments ==
    {j \in 1..Len(batch.paths) :
        /\ pc[batch.paths[j]] \in {"done", "failed"}
        /\ record[batch.paths[j]].status = "error"}

\* C15: when the extraction of one document of a batch fails, index_path
\* does not end with that exception: it returns, and writes, the records
\* of the other documents and an entry without records for the failed one.
C15_BatchSurvivesFailedDocument ==
    /\ batch.raised = "none"
    /\ batch.returned =>
          /\ Len(batch.records) = Len(batch.paths)
          /\ \A j \in 1..Len(batch.paths) :
                j \notin FailedDocuments
                    => batch.records[j] = record[batch.paths[j]]
          /\ batch.write => batch.output = <<batch.records>>

----------------------------------------------------------------------------
(* Skipped slides and failures of the whole container                      *)

\* C16: every slide node or slide that is skipped while the slide list is
\* built leaves a log record naming the document path and the slide
\* ordinal: the slides and the log records together account for the tree.
C16_EverySkipIsLogged ==
    \A r \in Runs :
        /\ \A j \in 1..Len(log[r]) :
              /\ log[r][j].path = container[r].path
              /\ log[r][j].slide \in 0..(Len(tree[r]) - 1)
        /\ SlidesBuilt(r) => Len(slides[r]) + Len(log[r]) = Len(tree[r])

\* The exceptions ZipFile raises for a path that is no archive container
ContainerError == {"BadZipFile", "FileNotFoundError"}

\* The stored Document chunk holds no object of the tag
Lacks(r, tag) ==
    \A x \in ObjectsAt(StoredDocument(r)) :
        PayloadAt(StoredDocument(r), x).pbtype # tag

\* C17: when the path is no archive container, opening fails with a
\* container error, and when the Document chunk holds no document object
\* or no show object, the extraction ends in an error: in neither case is
\* a document record returned.
C17_ContainerFailureReachesCaller ==
    \A r \in Runs :
        /\ ~container[r].isZip /\ pc[r] # "init"
            => /\ pc[r] = "failed"
               /\ record[r].status = "error"
               /\ record[r].exc \in ContainerError
        /\ Lacks(r, "KN.DocumentArchive") \/ Lacks(r, "KN.ShowArchive")
            => /\ record[r].status # "ok"
               /\ Finished(r) => record[r].status = "error"

----------------------------------------------------------------------------
(* The registry and the search for an object of a type                     *)

\* The identifiers a reference may carry
RefIds ==
    {1, 2, 3} \cup UNION {{NodeId(k), SlideId(k)} : k \in 1..(MaxSlides + 1)}

\* An archive of this header identifier has been registered
Registered(id) ==
    \E k \in DOMAIN store : store[k].header.identifier = id

\* C18: resolving a reference returns the registered archive whose header
\* identifier is the reference's identifier, and fails with the lookup
\* error of the registry (KeyError) when no such archive was registered;
\* no run was ever handed an archive of another header identifier.
C18_ResolveByHeaderIdentifier ==
    /\ \A id \in RefIds :
          LET res == Ref_archive(store, [identifier |-> id])
          IN IF Registered(id)
             THEN /\ ~Raised(res) /\ res.val # <<>>
                  /\ Val(res).header.identifier = id
                  /\ Val(res) = store[id]
             ELSE res = Raise("KeyError")
    /\ \A r \in Runs : \A x \in resolved[r] : x.identifier = x.ref

\* C18 witness: a run resolved its show and then failed on a tree
\* reference no archive is registered for
C18_Witness ==
    \E r \in Runs :
        /\ pc[r] = "failed" /\ record[r].exc = "KeyError"
        /\ \E x \in resolved[r] : x.ref = 2 /\ x.identifier = 2
        /\ treeIdx[r] < Len(tree[r])
        /\ ~Registered(tree[r][treeIdx[r] + 1].identifier)

\* The tags searched for
SearchedTypes ==
    {"KN.DocumentArchive", "KN.ShowArchive", "KN.SlideNodeArchive",
     "TSP.PackageMetadata", "TSWP.StorageArchive"}

\* The positions of the objects of a type in an archive
PositionsOf(archive, type) ==
    {j \in 1..Len(archive.objects) : archive.objects[j].pbtype = type}

\* The answer of a search that takes the first object in object order
FirstInOrder(archive, type) ==
    IF PositionsOf(archive, type) = {} THEN Raise("StopIteration")
    ELSE Ok(archive.objects[CHOOSE j \in PositionsOf(archive, type) :
                               \A i \in PositionsOf(archive, type) : j <= i])

\* The archives decoded from Document chunks, of any run
DocumentArchives ==
    UNION {{document[r].archives[j] : j \in 1..Len(document[r].archives)}
              : r \in Runs}

\* C19: Archive.next_object_of_type returns the first object of the
\* requested type in the archive's object order and fails (StopIteration)
\* when the archive holds none; every slide node the tree walk yielded is
\* the first slide node of the archive its tree reference named.
C19_FirstObjectOfTypeOrFail ==
    /\ \A id \in DOMAIN store : \A t \in SearchedTypes :
          Archive_next_object_of_type(store[id], t) = FirstInOrder(store[id], t)
    /\ \A r \in Runs : \A j \in 1..Len(yielded[r]) :
          \E a \in DocumentArchives :
             /\ a.header.identifier = tree[r][yielded[r][j].pos].identifier
             /\ Ok(yielded[r][j].node) = FirstInOrder(a, "KN.SlideNodeArchive")

\* C19 witness: the walk yielded the first of the two slide nodes of an
\* archive that holds another object before them, and skipped nothing
C19_Witness ==
    \E r \in Runs : \E j \in 1..Len(yielded[r]) :
        \E id \in DOMAIN store :
            /\ id = tree[r][yielded[r][j].pos].identifier
            /\ Cardinality(PositionsOf(store[id], "KN.SlideNodeArchive")) = 2
            /\ store[id].objects[1].pbtype # "KN.SlideNodeArchive"
            /\ yielded[r][j].node = store[id].objects[2]
            /\ yielded[r][j].node # store[id].objects[3]

----------------------------------------------------------------------------
(* The path-safe digest                                                    *)

\* "=" occurs in the digest only at its end, as in base64 text
PaddingAtEnd(d) ==
    \A i, j \in 1..Len(d) : i < j /\ d[i] = "=" => d[j] = "="

\* The digest with "/" as "_", "+" as "-", the trailing "=" dropped and
\* every other character in place
TrailingStripped(d) ==
    LET last == IF \A j \in 1..Len(d) : d[j] = "=" THEN 0
                ELSE CHOOSE j \in 1..Len(d) :
                        d[j] # "=" /\ \A i \in (j + 1)..Len(d) : d[i] = "="
    IN [j \in 1..last |-> CASE d[j] = "/" -> "_"
                            [] d[j] = "+" -> "-"
                            [] OTHER -> d[j]]

\* C20 as stated: the safe thumbnail hash is the digest with every "/"
\* replaced by "_", every "+" by "-", the trailing "=" stripped and all
\* other characters kept in place; on a base64 digest it holds none of
\* "/", "+", "=".
C20_Original_TrailingPaddingStripped ==
    \A x \in SlidesOut :
        /\ x.rec.thumb_digest = TrailingStripped(StoredThumbnail(x.s).digest)
        /\ PaddingAtEnd(StoredThumbnail(x.s).digest)
            => \A j \in 1..Len(x.rec.thumb_digest) :
                  x.rec.thumb_digest[j] \notin {"/", "+", "="}

\* The digest with "/" as "_", "+" as "-", and without any "="
EveryPaddingRemoved(d) ==
    LET kept == SelectSeq(d, LAMBDA c : c # "=")
    IN [j \in 1..Len(kept) |-> CASE kept[j] = "/" -> "_"
                                 [] kept[j] = "+" -> "-"
                                 [] OTHER -> kept[j]]

\* C20 amended: the safe thumbnail hash is the digest with every "/"
\* replaced by "_", every "+" by "-" and every "=" removed, wherever it
\* stands, the other characters kept in order; it holds none of "/", "+",
\* "=", and on a digest whose "=" are all at its end this is the digest
\* with the trailing "=" stripped.
C20_EveryPaddingRemoved ==
    \A x \in SlidesOut :
        /\ x.rec.thumb_digest = EveryPaddingRemoved(StoredThumbnail(x.s).digest)
        /\ \A j \in 1..Len(x.rec.thumb_digest) :
              x.rec.thumb_digest[j] \notin {"/", "+", "="}
        /\ PaddingAtEnd(StoredThumbnail(x.s).digest)
            => x.rec.thumb_digest = TrailingStripped(StoredThumbnail(x.s).digest)

\* C20 witness: slide records were built from a digest with "=" inside
\* and at its end, and from a base64 digest
C20_Witness ==
    \E x, y \in SlidesOut :
        /\ ~PaddingAtEnd(StoredThumbnail(x.s).digest)
        /\ StoredThumbnail(x.s).digest[Len(StoredThumbnail(x.s).digest)] = "="
        /\ \E j \in 1..Len(StoredThumbnail(x.s).digest) :
              StoredThumbnail(x.s).digest[j] = "/"
        /\ x.rec.thumb_digest # TrailingStripped(StoredThumbnail(x.s).digest)
        /\ PaddingAtEnd(StoredThumbnail(y.s).digest)
        /\ \E j \in 1..Len(StoredThumbnail(y.s).digest) :
              StoredThumbnail(y.s).digest[j] = "="

----------------------------------------------------------------------------
(* Registration before resolution                                          *)

\* The convert() calls of run r that returned a chunk
Converted(r) ==
    {j \in 1..Len(decoded[r]) : decoded[r][j].exc = "none"}

\* The references a chunk holds: the show of a document object, the tree
\* of a show object, the slide and thumbnails of a slide node
RefsOfObject(o) ==
    CASE o.pbtype = "KN.DocumentArchive" -> {o.show.identifier}
      [] o.pbtype = "KN.ShowArchive" ->
            {o.slideTree.slides[j].identifier
                : j \in 1..Len(o.slideTree.slides)}
      [] o.pbtype = "KN.SlideNodeArchive" ->
            {o.slide[j].identifier : j \in 1..Len(o.slide)}
            \cup {o.thumbnails[j].identifier : j \in 1..Len(o.thumbnails)}
      [] OTHER -> {}

RefsOfChunk(archives) ==
    UNION {RefsOfObject(AllObjects(archives)[j])
              : j \in 1..Len(AllObjects(archives))}

\* C21: every archive of a chunk that convert() returned is in the
\* registry under its header identifier, all the archives of the entry
\* among them; a run resolves no reference before its Document chunk is
\* decoded, and every reference a run resolved is held by a chunk that
\* convert() returned, whose archives are therefore all registered.
C21_RegisteredBeforeResolved ==
    \A r \in Runs :
        /\ \A j \in Converted(r) :
              LET e == decoded[r][j]
              IN /\ Len(e.registered) = Len(container[r].iwa[e.name].archives)
                 /\ \A i \in 1..Len(e.registered) :
                       LET id == e.registered[i].header.identifier
                       IN /\ id = container[r].iwa[e.name].archives[i]
                                     .header.identifier
                          /\ id \in DOMAIN store
                          /\ store[id].header.identifier = id
        /\ pc[r] \in {"init", "open", "meta"} => resolved[r] = {}
        /\ resolved[r] # {} =>
              /\ \E j \in Converted(r) :
                    /\ decoded[r][j].name = "Index/Document.iwa"
                    /\ decoded[r][j].registered = document[r].archives
              /\ \A x \in resolved[r] :
                    \E o \in Runs : \E j \in Converted(o) :
                        x.ref \in RefsOfChunk(decoded[o][j].registered)

\* C21 witness: a run resolved the show reference and a tree reference of
\* its Document chunk, whose archives, the resolved ones among them, were
\* all registered by its decode
C21_Witness ==
    \E r \in Runs :
        /\ \E x, y \in resolved[r] : x.ref = 2 /\ y.ref = NodeId(1)
        /\ Len(document[r].archives) = 2 + MaxSlides
        /\ \A i \in 1..Len(document[r].archives) :
              document[r].archives[i].header.identifier \in DOMAIN store

----------------------------------------------------------------------------
(* Ordinals                                                                *)

\* C24: the ordinal of every slide of KeynoteFile.slides, and of its slide
\* record, is the position (counted from zero, as enumerate counts) of its
\* slide node in the slide-tree list, also when another tree entry was
\* omitted because its archive holds no slide node or its backing entry is
\* unreadable.
C24_OrdinalIsTreePosition ==
    \A r \in Runs :
        /\ \A j \in 1..Len(slides[r]) :
              slides[r][j].number = TreePos(r, slides[r][j]) - 1
        /\ Extracted(r) =>
              \A j \in 1..Len(record[r].slides) :
                  record[r].slides[j].slide_number
                      = TreePos(r, slides[r][j]) - 1

----------------------------------------------------------------------------
(* Presenter notes                                                         *)

\* The notes-kind text storages of a slide that carry text, in decode order
NoteObjects(s) ==
    SelectSeq(StorageObjects(s), LAMBDA o : o.kind = "NOTE")

\* Where v first occurs in t
FirstAt(t, v) ==
    CHOOSE i \in 1..(Len(t) - Len(v) + 1) :
        /\ SubSeq(t, i, i + Len(v) - 1) = v
        /\ \A h \in 1..(i - 1) : SubSeq(t, h, h + Len(v) - 1) # v

\* C25: the presenter_notes of a slide record hold the text of every
\* notes-kind text storage of the slide's archives, in archive and object
\* decode order, not only the text of the first one.
C25_NotesOfEveryNotesObject ==
    \A x \in SlidesOut :
        LET notes == NoteObjects(x.s)
        IN /\ \A j \in 1..Len(notes) :
                 Contains(x.rec.presenter_notes, StorageText(notes[j]))
           /\ \A i, j \in 1..Len(notes) :
                 i < j => FirstAt(x.rec.presenter_notes, StorageText(notes[i]))
                            < FirstAt(x.rec.presenter_notes, StorageText(notes[j]))

----------------------------------------------------------------------------
(* The chunk-level search                                                  *)

ChunkDecoded(chunk) == chunk.archives # <<>>

\* C26: on a decoded Document or Metadata chunk, the chunk-level search
\* for the document object, respectively the package-metadata object,
\* answers with the first object of that type in archive and object order
\* over all the archives of the chunk, and fails only when no archive of
\* the chunk holds one.
C26_ChunkSearchCoversAllArchives ==
    \A r \in Runs :
        /\ ChunkDecoded(document[r]) =>
              Chunk_next_object_of_type(document[r], "KN.DocumentArchive")
                  = FirstOfType(AllObjects(document[r].archives),
                                "KN.DocumentArchive")
        /\ ChunkDecoded(metadata[r]) =>
              Chunk_next_object_of_type(metadata[r], "TSP.PackageMetadata")
                  = FirstOfType(AllObjects(metadata[r].archives),
                                "TSP.PackageMetadata")

----------------------------------------------------------------------------
(* The native identifier of a slide                                        *)

\* node.slide.identifier of the slide node a slide was built from
NodeSlideId(s) == s.node_archive.slide[1].identifier

\* C27: in every slide record, slide_ident and the identifier that seeds
\* the stable id are the slide identifier the slide node references
\* (node.slide.identifier), whatever the order of the archives inside the
\* slide's backing entry.
C27_NativeIdIsNodeSlideId ==
    \A x \in SlidesOut :
        /\ x.rec.slide_ident = NodeSlideId(x.s)
        /\ x.rec.id = global_slide_uuid(x.s.keynote, NodeSlideId(x.s))

----------------------------------------------------------------------------
(* Exported thumbnails                                                     *)

\* C23: after export_thumbnails and record(), for every slide record (each
\* carries a thumb_digest) the export wrote that slide's thumbnail bytes to
\* the file "<thumb_digest>.jpg", so that the file a thumbnail URL
\* "<base>/<digest>.jpg" names was exported for a slide of that digest.
C23_EveryDigestHasItsExportedFile ==
    \A r \in Runs :
        Extracted(r) =>
            \A j \in 1..Len(record[r].slides) :
                \E i \in 1..Len(exported[r]) :
                    /\ exported[r][i].name
                          = record[r].slides[j].thumb_digest \o <<".jpg">>
                    /\ Ok(exported[r][i].bytes)
                          = Slide_thumbnail_bytes(slides[r][j])

----------------------------------------------------------------------------
(* The index documents and the servers of meili_main                       *)

\* The slide records meili_main was given, each with its document record
InputSlides ==
    UNION {{[doc |-> meili.records[d], slide |-> meili.records[d].slides[j]]
              : j \in 1..Len(meili.records[d].slides)}
           : d \in 1..Len(meili.records)}

\* _arrange_records has run: the documents it returned
Arranged == meili.pc # "none" /\ meili.docs # <<>>

IndexDocuments == meili.docs[1]

\* C22: _arrange_records emits exactly one index document for every slide
\* record of its input, keyed by that slide's stable id, also for a slide
\* whose thumbnail digest is the digest of an earlier slide.
C22_OneIndexDocumentPerSlide ==
    Arranged =>
        /\ Len(IndexDocuments) = Cardinality(InputSlides)
        /\ \A x \in InputSlides :
              Cardinality({i \in 1..Len(IndexDocuments) :
                              IndexDocuments[i]["id"] = x.slide.id}) = 1

\* The thumbnail URL of a digest
ThumbnailUrl(digest) == meili.thumb_url[1] \o "/" \o digest \o ".jpg"

\* C28: an index document has a "thumbnail" field only if a thumbnail base
\* URL was given and its own slide record carried a non-empty thumb_digest,
\* and the field is then "<base>/<that digest>.jpg"; every other field of
\* an index document is a field of its own slide record with that value,
\* or else a field of its document record: nothing of an earlier slide is
\* carried into it.
C28_NoFieldOfAnotherSlide ==
    Arranged =>
        \A i \in 1..Len(IndexDocuments) :
            LET e == IndexDocuments[i]
            IN \E x \in InputSlides :
                  /\ x.slide.id = e["id"]
                  /\ "thumbnail" \in DOMAIN e =>
                        /\ Truthy(meili.thumb_url)
                        /\ "thumb_digest" \in DOMAIN x.slide
                        /\ x.slide["thumb_digest"] # ""
                        /\ e["thumbnail"]
                              = ThumbnailUrl(x.slide["thumb_digest"])
                  /\ \A k \in DOMAIN e \ {"thumbnail"} :
                        IF k \in DOMAIN x.slide THEN e[k] = x.slide[k]
                        ELSE k \in DOMAIN x.doc /\ e[k] = x.doc[k]

\* Control has left meili_main
LeftMeili == meili.pc \in {"exited", "raised"}

\* C29: when control has left meili_client, by the end of the with body,
\* by an exception raised in it or by the TimeoutError of the start-up,
\* the meilisearch process it started, if any, has been terminated and
\* waited for.
C29_StartedProcessIsReaped ==
    LeftMeili => meili.proc \in {"none", "waited"}

\* The thumbnail set-up cannot succeed
ThumbnailsUnusable ==
    /\ meili.pc # "none"
    /\ \/ meili.thumb_dir = "missing"
       \/ meili.thumb_dir = "exists" /\ meili.port_busy

====
